---- MODULE Spec2Model ----
(***************************************************************************)
(* SPI-mode SD card block driver (sd_spi.c with its FatFs bridge).         *)
(*                                                                         *)
(* The handle SD_Handle_t is shared by the tasks of a FreeRTOS build       *)
(* (USE_FREERTOS defined).  Each task runs one public call at a time; a    *)
(* call is cut into steps at the places where it reads or writes shared    *)
(* state (the handle, the mutex, the chip-select pin, the SPI bus).  The   *)
(* card and the SPI peripheral are nondeterministic: every primitive may   *)
(* succeed, fail or time out.  Interrupt handlers that call the API run    *)
(* to completion, so such a call is one step.                              *)
(*                                                                         *)
(* Spec      one task, every fault of the card, every argument class.      *)
(* SpecIsr   one task and calls made from interrupt handlers.              *)
(* SpecConc  several tasks on the same handle, valid arguments.            *)
(***************************************************************************)
EXTENDS Integers, FiniteSets, Sequences, TLC

(***************************************************************************)
(* Bounds of the model.                                                    *)
(***************************************************************************)
NumTasks == 2
MaxCount == 2
SmallSector == 100
BigSectorHi == 128
MaxStat == 2
MaxPolls == 2

(***************************************************************************)
(* Program constants.                                                      *)
(***************************************************************************)
SD_BLOCK_SIZE == 512
SD_MAX_RETRIES == 2
SD_CMD_TIMEOUT_MS == 100
SD_WRITE_BUSY_TIMEOUT_MS == 500
SD_DMA_ALIGNMENT == 32
CMD0 == 0
CMD8 == 8
SD_CMD9 == 9
SD_CMD12 == 12
SD_CMD16 == 16
CMD17 == 17
SD_CMD18 == 18
CMD24 == 24
SD_CMD25 == 25
CMD55 == 55
CMD58 == 58
ACMD41 == 41
SD_DATA_RESP_MASK == 31
SD_DATA_RESP_ACCEPTED == 5
SD_DATA_RESP_CRC_ERR == 11
SD_DATA_RESP_WRITE_ERR == 13
Half == 256 * 256

\* The high half of 2^23, the first sector whose byte address sector * 512
\* does not fit a uint32_t.
WrapHi == Half \div SD_BLOCK_SIZE

Tasks == 1..NumTasks
SeqTasks == {1}

Ops == {"init", "read", "readm", "write", "writem", "sync"}
RwOps == {"read", "readm", "write", "writem"}

VARIABLES
  pc,            \* pc[t]: the place task t has reached in its call
  call,          \* call[t]: the call task t is running and its arguments
  loc,           \* loc[t]: the local variables of that call
  mutex,         \* sd_handle->mutex: "VALID" or "NULL" (deleted by SD_DeInit)
  holder,        \* the task that has taken the mutex, 0 when it is free
  cs,            \* level of the chip-select pin: "SET" deasserted, "RESET" asserted
  initialized,   \* sd_handle->initialized
  is_sdhc,       \* sd_handle->is_sdhc
  has_cd,        \* sd_handle->has_cd
  cd_active_low, \* sd_handle->cd_active_low
  cd_pin,        \* level read on the card-detect input
  last_status,   \* sd_handle->last_status
  stats,         \* sd_handle->stats
  block_size,    \* sd_handle->block_size
  capacity_blocks, \* sd_handle->capacity_blocks, a uint32_t
  card,          \* the card in the socket: its type (hc) and its blocks (mem)
  gate,          \* history: a call has returned SD_NO_MEDIA and since then no
                 \* SD_SPI_Init has returned SD_OK (ret) / has set initialized (set)
  hist,          \* history: what the last init sequence and the writes did
  ev             \* what the last step did that can be seen from outside

vars == <<pc, call, loc, mutex, holder, cs, initialized, is_sdhc, has_cd,
          cd_active_low, cd_pin, last_status, stats, block_size,
          capacity_blocks, card, gate, hist, ev>>

(***************************************************************************)
(* Records.                                                                *)
(***************************************************************************)
\* A uint32_t is written <<high 16 bits, low 16 bits>>.
U32(n) == <<n \div Half, n % Half>>

\* via: the call comes from the application ("api") or from the FatFs bridge
\* ("disk"); data: what the 512 bytes at buff are when a write is called.
NoCall ==
  [op |-> "none", buf |-> FALSE, sector |-> U32(0), count |-> 0,
   via |-> "api", data |-> "none"]

\* SD_Stats after the memset of SD_Init.
NoStats ==
  [read_ops |-> 0, write_ops |-> 0, read_blocks |-> 0, write_blocks |-> 0,
   init_attempts |-> 0, error_count |-> 0, timeout_count |-> 0]

\* The sectors whose content is followed on the card: a small one and the
\* one 2^23 above it.
MediumSectors == {U32(SmallSector), <<WrapHi, SmallSector>>}
Payloads == {"P", "Q"}

\* A brand-new card of type hc (TRUE: block addressed, SDHC/SDXC); hold: for
\* how many milliseconds from now it keeps MISO low (busy).
BlankCard(hc) ==
  [hc |-> hc, mem |-> [b \in MediumSectors |-> "blank"], hold |-> 0]

\* The DMA completion signals of the handle and the SPI peripheral behind
\* them.  build: with the RTOS the signals are the binary semaphores
\* dma_tx_sem and dma_rx_sem, without it the flags dma_tx_done and
\* dma_rx_done.  tx, rx: "none" (semaphore empty, flag false), or who gave the
\* signal: the completion interrupt of the transfer now or last started
\* ("own"), its error interrupt ("err"), an interrupt of a transfer before
\* that one ("stale").  hw: the direction of the transfer the peripheral has
\* in flight, "idle" when it has none.  owner: s_dma_owner is the handle.
Builds == {"rtos", "bare"}
NoSig ==
  [build |-> "rtos", tx |-> "none", rx |-> "none", hw |-> "idle",
   owner |-> TRUE]

\* The fields of the CSD register that SD_ParseCSD looks at; read: the 16
\* bytes came in.
NoCsd ==
  [read |-> FALSE, structure |-> 0, c_size |-> 0, c_size_mult |-> 0,
   read_bl_len |-> 0]

\* blklen: the last init sequence sent CMD16(512) and got R1 0x00; csd: the
\* CSD register the last init sequence read; shadow[s]: the payload of the
\* last write of sector s if that write returned SD_OK, else "unknown";
\* sure[s]: the same, forgotten when a byte address wraps; timeouts: the
\* calls that returned SD_TIMEOUT; sig: the DMA completion signals of the
\* handle (NoSig).
NoHist ==
  [blklen |-> FALSE, csd |-> NoCsd, timeouts |-> 0, sig |-> NoSig,
   shadow |-> [b \in MediumSectors |-> "unknown"],
   sure |-> [b \in MediumSectors |-> "unknown"]]

\* status, response, attempt, i, address, sdv2: the locals of the public
\* functions and of the Internal helpers.  The other fields are the history of
\* the call: touched (it has driven CS or the bus), lockTO (its SD_Lock found
\* the mutex taken until the timeout), absent (the card-detect input reported
\* no card when the call looked), uninit (initialized was false when the call
\* looked at it or would have), init0 (initialized when the call began), gRet
\* and gSet (the call began while gate.ret, gate.set were up and they have not
\* come down since), data (what the card sent into buff), seq (how far the
\* init sequence has come, the last command it sent), cmd0Ok and acmdOk (a
\* CMD0 was answered 0x01, an ACMD41 was answered 0x00), ocr ("none": not
\* read, else whether CCS was set), s0 (the statistics when the call began),
\* tries (the single-block attempts that ended), last (the status of the last
\* one), okSeen (one of them ended with SD_OK), delays (the SD_BackoffDelay
\* calls of the retry loop), held (the busy time
\* the card took after the first block it accepted, -1: none yet), reheld
\* (it took a busy time after a later one), refused (a data response of the
\* call was not "accepted").  snap: the counters as SD_RecordStatus loaded
\* them, where its load and its store are separate steps.  polls: the ticks
\* gone by in the polling loop the call is in; use_dma, buff: the handle's
\* use_dma flag and the address of the caller's buffer; dma: the state of
\* the DMA transfer the call has started ("idle", "running", "aborted", and
\* where the completion signals are followed "timedout" and DmaEnds); ends:
\* how the DMA transfers of the call ended; tick, deadline: HAL_GetTick() and
\* the local timeout / deadline of a wait that is followed by the tick.
\* History of a multi-block helper: SD_SendCommand calls for CMD18 / CMD25,
\* whether the command was accepted, 512-byte transfers started, the block
\* whose step failed first (-1: none) and the status of that step, whether a
\* step of a block ran after the failure, and the stop step ("framed" /
\* "unframed": SD_SendCommand(CMD12) with and without its frame on the wire,
\* "token": the 0xFD and the busy wait), and what the SD_WaitReady after the
\* 0xFD returned.
NoMulti ==
  [opened |-> 0, accepted |-> FALSE, moved |-> 0, failed |-> -1,
   bad |-> "none", late |-> FALSE, stop |-> "none", csStop |-> "none",
   final |-> "none"]

NoLoc ==
  [status |-> "SD_OK", response |-> 255, attempt |-> 0, i |-> 0,
   address |-> U32(0), sdv2 |-> FALSE,
   touched |-> FALSE, lockTO |-> FALSE, absent |-> FALSE, uninit |-> FALSE,
   init0 |-> FALSE, gRet |-> FALSE, gSet |-> FALSE,
   data |-> "none", seq |-> "none", cmd0Ok |-> FALSE, acmdOk |-> FALSE,
   r7 |-> "none", ocr |-> "none", s0 |-> NoStats,
   tries |-> 0, last |-> "none", okSeen |-> FALSE, delays |-> 0,
   held |-> -1, reheld |-> FALSE, refused |-> FALSE, snap |-> NoStats,
   polls |-> 0, use_dma |-> FALSE, buff |-> 0, dma |-> "idle",
   multi |-> NoMulti, prim |-> "none", ends |-> {},
   tick |-> U32(0), deadline |-> U32(0)]

NoEv ==
  [kind |-> "none", t |-> 0, op |-> "none", isr |-> FALSE, buf |-> FALSE,
   sector |-> U32(0), count |-> 0, status |-> "SD_OK", why |-> "none",
   touched |-> FALSE, lockTO |-> FALSE, absent |-> FALSE, uninit |-> FALSE,
   init0 |-> FALSE, gRet |-> FALSE, gSet |-> FALSE,
   cmd |-> 0, arg |-> U32(0), sdhc |-> FALSE, byte |-> 0, class |-> "none",
   data |-> "none", expect |-> "unknown", sure |-> "unknown",
   seq |-> "none", cmd0Ok |-> FALSE, acmdOk |-> FALSE, r7 |-> "none",
   ocr |-> "none", s0 |-> NoStats,
   tries |-> 0, last |-> "none", okSeen |-> FALSE, delays |-> 0,
   held |-> -1, reheld |-> FALSE, refused |-> FALSE,
   path |-> "none", i |-> 0, addr |-> 0, use_dma |-> FALSE, wire |-> "none",
   csl |-> <<>>, csend |-> "none", dma |-> "idle", multi |-> NoMulti,
   prim |-> "none", ends |-> {}, waited |-> 0,
   via |-> "api", fn |-> "none", pdrv |-> 0, ctl |-> "none", res |-> "none",
   sta |-> {}, out |-> U32(0)]

\* The positions between a successful SD_Lock and the call of SD_Unlock are
\* all but these ("bridge": in a function of the FatFs bridge that is about
\* to call the driver).
Outside == {"idle", "bridge", "lock", "rec", "rec_store"}
Holding(t) == pc[t] \notin Outside

(***************************************************************************)
(* Pure helpers of the driver.                                             *)
(***************************************************************************)
\* SD_IsCardPresent, for a non-null handle.
SD_IsCardPresent(hascd, activelow, pin) ==
  IF ~hascd THEN TRUE
  ELSE IF activelow THEN pin = "RESET" ELSE pin = "SET"

\* EntryCheck (below) with the count == 0 test left out.
EntryCheckNoCount(op, buf, count, init, present) ==
  CASE op \in RwOps ->
         IF ~buf THEN "SD_PARAM"
         ELSE IF ~present THEN "SD_NO_MEDIA"
         ELSE "PASS"
    [] op = "init" -> IF ~present THEN "SD_NO_MEDIA" ELSE "PASS"
    [] op = "sync" ->
         IF ~init THEN "SD_ERROR"
         ELSE IF ~present THEN "SD_NO_MEDIA"
         ELSE "PASS"

\* EntryCheck (below) with the presence test left out of the two write calls.
EntryCheckWriteNoPresence(op, buf, count, init, present) ==
  CASE op \in RwOps ->
         IF ~buf \/ count = 0 THEN "SD_PARAM"
         ELSE IF ~present /\ op \in {"read", "readm"} THEN "SD_NO_MEDIA"
         ELSE "PASS"
    [] op = "init" -> IF ~present THEN "SD_NO_MEDIA" ELSE "PASS"
    [] op = "sync" ->
         IF ~init THEN "SD_ERROR"
         ELSE IF ~present THEN "SD_NO_MEDIA"
         ELSE "PASS"

\* The checks a public function makes before it calls SD_Lock: the status it
\* returns there, or "PASS".
EntryCheck(op, buf, count, init, present) ==
  CASE op \in RwOps ->
         IF ~buf \/ count = 0 THEN "SD_PARAM"
         ELSE IF ~present THEN "SD_NO_MEDIA"
         ELSE "PASS"
    [] op = "init" -> IF ~present THEN "SD_NO_MEDIA" ELSE "PASS"
    [] op = "sync" ->
         IF ~init THEN "SD_ERROR"
         ELSE IF ~present THEN "SD_NO_MEDIA"
         ELSE "PASS"

\* InitializedAfter (below) where SD_NO_MEDIA leaves the flag alone.
InitializedAfterKeep(e, init) == init

\* sd_handle->initialized after the entry checks ended with e: the
\* SD_NO_MEDIA path clears it.
InitializedAfter(e, init) == IF e = "SD_NO_MEDIA" THEN FALSE ELSE init

\* SD_Lock (below) that takes a mutex another task holds.
SD_LockIgnoreHolder(inisr, m, h) ==
  IF inisr THEN "SD_BUSY"
  ELSE IF m = "NULL" THEN "SD_ERROR"
  ELSE "SD_OK"

\* SD_Lock (below) that reports the mutex timeout as SD_TIMEOUT.
SD_LockTimeoutStatus(inisr, m, h) ==
  IF inisr THEN "SD_BUSY"
  ELSE IF m = "NULL" THEN "SD_ERROR"
  ELSE IF h # 0 THEN "SD_TIMEOUT"
  ELSE "SD_OK"

\* SD_Lock (below) without the SD_InISR test.
SD_LockNoIsr(inisr, m, h) ==
  IF m = "NULL" THEN "SD_ERROR"
  ELSE IF h # 0 THEN "SD_BUSY"
  ELSE "SD_OK"

\* SD_Lock: the status it returns.  inisr: SD_InISR(); m: the mutex handle;
\* h: the task holding the mutex (0: none).  A take on a held mutex ends in
\* pdFALSE when SD_MUTEX_TIMEOUT_MS runs out.
SD_Lock(inisr, m, h) ==
  IF inisr THEN "SD_BUSY"
  ELSE IF m = "NULL" THEN "SD_ERROR"
  ELSE IF h # 0 THEN "SD_BUSY"
  ELSE "SD_OK"

\* CountInitAttempt (below) left out.
CountInitAttemptNever(op, s) == s

\* sd_handle->stats.init_attempts++ in SD_SPI_Init.
CountInitAttempt(op, s) ==
  IF op = "init" THEN [s EXCEPT !.init_attempts = @ + 1] ELSE s

\* CountTransfer (below) that counts one block whatever count is.
CountTransferOneBlock(op, count, s) ==
  IF op \in {"read", "readm"}
  THEN [s EXCEPT !.read_ops = @ + 1, !.read_blocks = @ + 1]
  ELSE [s EXCEPT !.write_ops = @ + 1, !.write_blocks = @ + 1]

\* stats.read_ops++; stats.read_blocks += count; and the same for writes.
CountTransfer(op, count, s) ==
  IF op \in {"read", "readm"}
  THEN [s EXCEPT !.read_ops = @ + 1, !.read_blocks = @ + count]
  ELSE [s EXCEPT !.write_ops = @ + 1, !.write_blocks = @ + count]

\* History: what is remembered of the sector a single-block read asks for.
Remembered(m, c) ==
  IF c.op = "read" /\ c.count = 1 /\ c.sector \in DOMAIN m
  THEN m[c.sector] ELSE "unknown"

(***************************************************************************)
(* The FatFs bridge (sd_diskio_spi.c): what it makes of its arguments      *)
(* before it calls the driver ("CALL": it does call) and of the status the *)
(* driver returns.  A DSTATUS is the set of its flags.                     *)
(***************************************************************************)
\* SD_disk_status (below) that does not look at the initialized flag.
SD_disk_statusAnyInit(drv, present, init) ==
  IF drv # 0 THEN {"STA_NOINIT"}
  ELSE IF ~present THEN {"STA_NODISK", "STA_NOINIT"}
  ELSE {}

\* SD_disk_status.
SD_disk_status(drv, present, init) ==
  IF drv # 0 THEN {"STA_NOINIT"}
  ELSE IF ~present THEN {"STA_NODISK", "STA_NOINIT"}
  ELSE IF init THEN {} ELSE {"STA_NOINIT"}

\* SD_disk_initialize before SD_SPI_Init ({"CALL"}: it does call).
DiskInitializeCheck(drv, present) ==
  IF drv # 0 THEN {"STA_NOINIT"}
  ELSE IF ~present THEN {"STA_NODISK", "STA_NOINIT"}
  ELSE {"CALL"}

\* SD_disk_initialize after SD_SPI_Init returned st.
DiskInitializeResult(st) == IF st = "SD_OK" THEN {} ELSE {"STA_NOINIT"}

\* SD_disk_read / SD_disk_write before SD_ReadBlocks / SD_WriteBlocks.
DiskRwCheck(pdrv, buf, count, init, present) ==
  IF pdrv # 0 \/ count = 0 \/ ~buf THEN "RES_PARERR"
  ELSE IF ~init \/ ~present THEN "RES_NOTRDY"
  ELSE "CALL"

\* DiskRwResult (below) that reports SD_BUSY as an error.
DiskRwResultBusyError(st) ==
  IF st = "SD_OK" THEN "RES_OK"
  ELSE IF st = "SD_NO_MEDIA" THEN "RES_NOTRDY"
  ELSE "RES_ERROR"

\* SD_disk_read / SD_disk_write after the driver returned st.
DiskRwResult(st) ==
  IF st = "SD_OK" THEN "RES_OK"
  ELSE IF st = "SD_NO_MEDIA" \/ st = "SD_BUSY" THEN "RES_NOTRDY"
  ELSE "RES_ERROR"

IoctlCmds ==
  {"CTRL_SYNC", "GET_SECTOR_SIZE", "GET_SECTOR_COUNT", "GET_BLOCK_SIZE",
   "CTRL_TRIM"}

\* DiskIoctlCheck (below) that reports the erase block as 512.
DiskIoctlCheckBlock512(pdrv, cmd, buf, cap) ==
  IF pdrv # 0 THEN [res |-> "RES_PARERR", wr |-> FALSE, out |-> <<0, 0>>]
  ELSE CASE cmd = "CTRL_SYNC" -> [res |-> "CALL", wr |-> FALSE, out |-> <<0, 0>>]
         [] cmd = "GET_SECTOR_SIZE" /\ buf ->
              [res |-> "RES_OK", wr |-> TRUE, out |-> <<0, SD_BLOCK_SIZE>>]
         [] cmd = "GET_SECTOR_COUNT" /\ buf ->
              [res |-> IF cap # <<0, 0>> THEN "RES_OK" ELSE "RES_ERROR",
               wr |-> TRUE, out |-> cap]
         [] cmd = "GET_BLOCK_SIZE" /\ buf ->
              [res |-> "RES_OK", wr |-> TRUE, out |-> <<0, SD_BLOCK_SIZE>>]
         [] OTHER -> [res |-> "RES_PARERR", wr |-> FALSE, out |-> <<0, 0>>]

\* SD_disk_ioctl: the result, whether *buff was written and with what (a
\* uint32_t); cap is SD_GetBlockCount().  "CALL": SD_Sync is called.
DiskIoctlCheck(pdrv, cmd, buf, cap) ==
  IF pdrv # 0 THEN [res |-> "RES_PARERR", wr |-> FALSE, out |-> <<0, 0>>]
  ELSE CASE cmd = "CTRL_SYNC" -> [res |-> "CALL", wr |-> FALSE, out |-> <<0, 0>>]
         [] cmd = "GET_SECTOR_SIZE" /\ buf ->
              [res |-> "RES_OK", wr |-> TRUE, out |-> <<0, SD_BLOCK_SIZE>>]
         [] cmd = "GET_SECTOR_COUNT" /\ buf ->
              [res |-> IF cap # <<0, 0>> THEN "RES_OK" ELSE "RES_ERROR",
               wr |-> TRUE, out |-> cap]
         [] cmd = "GET_BLOCK_SIZE" /\ buf ->
              [res |-> "RES_OK", wr |-> TRUE, out |-> <<0, 1>>]
         [] OTHER -> [res |-> "RES_PARERR", wr |-> FALSE, out |-> <<0, 0>>]

\* SD_disk_ioctl(CTRL_SYNC) after SD_Sync returned st.
DiskSyncResult(st) == IF st = "SD_OK" THEN "RES_OK" ELSE "RES_ERROR"

\* The bridge function behind a driver call, and what it returns when the
\* driver call returns st.
BridgeFn(c) ==
  IF c.via # "disk" THEN "none"
  ELSE CASE c.op = "init" -> "initialize"
         [] c.op = "read" -> "read"
         [] c.op = "write" -> "write"
         [] c.op = "sync" -> "ioctl"
         [] OTHER -> "none"

BridgeResult(c, st) ==
  IF c.via # "disk" THEN "none"
  ELSE CASE c.op \in {"read", "write"} -> DiskRwResult(st)
         [] c.op = "sync" -> DiskSyncResult(st)
         [] OTHER -> "none"

BridgeStatus(c, st) ==
  IF c.via = "disk" /\ c.op = "init" THEN DiskInitializeResult(st) ELSE {}

\* SD_Unlock by task t: the holder of the mutex afterwards.
SD_Unlock(t, m, h) ==
  IF m # "NULL" /\ h = t THEN 0 ELSE h

-----------------------------------------------------------------------------
\* The handle after SD_Init, no call running.
InitFields ==
  /\ pc = [t \in Tasks |-> "idle"]
  /\ call = [t \in Tasks |-> NoCall]
  /\ loc = [t \in Tasks |-> NoLoc]
  /\ mutex = "VALID"
  /\ holder = 0
  /\ cs = "SET"
  /\ initialized = FALSE
  /\ is_sdhc = FALSE
  /\ has_cd = FALSE
  /\ cd_active_low = FALSE
  /\ cd_pin = "SET"
  /\ last_status = "SD_OK"
  /\ stats = NoStats
  /\ block_size = SD_BLOCK_SIZE
  /\ capacity_blocks = U32(0)
  /\ gate = [ret |-> FALSE, set |-> FALSE]
  /\ ev = NoEv

InitHandle == InitFields /\ hist = NoHist

\* The same in either build, a card in the socket.
InitBuild ==
  /\ InitFields
  /\ hist \in {[NoHist EXCEPT !.sig.build = b] : b \in Builds}
  /\ card = BlankCard(FALSE)

Init == InitHandle /\ card = BlankCard(FALSE)

\* The same with a card of either type in the socket.
InitAnyCard == InitHandle /\ card \in {BlankCard(hc) : hc \in BOOLEAN}

-----------------------------------------------------------------------------
(***************************************************************************)
(* What the card and the SPI peripheral may answer.                        *)
(***************************************************************************)
WaitResults == {"SD_OK", "SD_ERROR", "SD_TIMEOUT"}

\* One SD_SendCommand: the status returned, whether *response was written
\* (only on SD_OK) and with what, and whether the 6-byte frame went out (it
\* does not when the SD_WaitReady in front of it fails).
CmdAnswered(R1s) ==
  {[st |-> "SD_OK", wr |-> TRUE, r |-> x, framed |-> TRUE] : x \in R1s}
CmdFailed ==
  {[st |-> s, wr |-> FALSE, r |-> 255, framed |-> f] :
     s \in {"SD_ERROR", "SD_TIMEOUT"}, f \in BOOLEAN}

\* The CSD of a 2 GB card with the version 1.0 layout.
PlainCsd ==
  [read |-> TRUE, structure |-> 0, c_size |-> 4095, c_size_mult |-> 7,
   read_bl_len |-> 10]

\* The CSD registers a card may send, by the fields SD_ParseCSD takes out of
\* the 16 bytes (2-bit structure, 12-bit or 22-bit C_SIZE, 3-bit C_SIZE_MULT,
\* 4-bit READ_BL_LEN): a 2 GB and a 4 GB card with the version 1.0 layout, the
\* smallest card (four blocks), a 32 GB card and the largest C_SIZE with the
\* version 2.0 layout, and a structure the driver does not know.
CsdRegisters ==
  {PlainCsd,
   [PlainCsd EXCEPT !.read_bl_len = 11],
   [PlainCsd EXCEPT !.c_size = 0, !.c_size_mult = 0, !.read_bl_len = 9],
   [PlainCsd EXCEPT !.structure = 1, !.c_size = 60905],
   [PlainCsd EXCEPT !.structure = 1, !.c_size = 4194303],
   [PlainCsd EXCEPT !.structure = 2]}

\* Every CSD register by its fields: C_SIZE at and next to the ends of its
\* 12 bits (version 1.0 layout) and of its 22 bits (version 2.0 layout), every
\* C_SIZE_MULT, READ_BL_LEN at the ends of its 4 bits and at the values the
\* cards use, and the two structures the driver does not know.
CsdFields ==
  {[read |-> TRUE, structure |-> 0, c_size |-> c, c_size_mult |-> m,
    read_bl_len |-> b] :
     c \in {0, 2047, 4095}, m \in 0..7, b \in {0, 9, 10, 11, 15}}
  \cup
  {[read |-> TRUE, structure |-> v, c_size |-> c, c_size_mult |-> 0,
    read_bl_len |-> 9] :
     v \in 1..3, c \in {0, 60905, 4194302, 4194303}}

\* The R1 bytes a card of type c.hc may answer to cmd when it keeps to the
\* protocol; hcs: the last ACMD41 argument had the HCS bit.
LegalR1(cmd, c, hcs) ==
  CASE cmd = CMD0 -> {1}
    [] cmd = CMD8 -> IF c.hc THEN {1} ELSE {1, 5}
    [] cmd = CMD55 -> {0, 1}
    [] cmd = ACMD41 -> IF c.hc /\ ~hcs THEN {1} ELSE {0, 1}
    [] OTHER -> {0}

\* The block of the card an address argument means.
CardBlock(c, arg) ==
  IF c.hc THEN arg
  ELSE U32(arg[1] * (Half \div SD_BLOCK_SIZE) + arg[2] \div SD_BLOCK_SIZE)

\* What the card sends for a block.
CardRead(c, arg) ==
  IF CardBlock(c, arg) \in DOMAIN c.mem THEN c.mem[CardBlock(c, arg)]
  ELSE "blank"

\* The card with v in a block.
CardStore(c, arg, v) ==
  IF CardBlock(c, arg) \in DOMAIN c.mem
  THEN [c EXCEPT !.mem = [@ EXCEPT ![CardBlock(c, arg)] = v]]
  ELSE c

\* The card after the data-response byte b it gave for a block it was sent:
\* by the low five bits it has taken the data, has dropped it for the CRC, or
\* has failed while writing.
CardAfterResponse(c, arg, b, data) ==
  IF b % 32 = 5 THEN CardStore(c, arg, data)
  ELSE IF b % 32 = 11 THEN c
  ELSE CardStore(c, arg, "junk")

\* Input and fault domains of a specification.  follow: the parts of the
\* state the specification keeps up to date beyond the handle flags
\* ("stats", "geometry", "medium", "history", "attempts", "clock", "race",
\* "ticks", "dma", "wire", "multi", "prims"); legal:
\* the card answers every command the way the protocol lays down (LegalR1
\* below); data: the payloads written; csd: the CSD registers a card may
\* hold; holds: for how many milliseconds a card may keep MISO low after a
\* block it accepted (looked at when the clock is followed); dmas: the
\* use_dma flags of the handle; buffs: the addresses of the callers' buffers
\* (both looked at when "dma" is followed).
FullD ==
  [ops     |-> Ops,
   track   |-> TRUE,
   bufs    |-> BOOLEAN,
   counts  |-> 0..MaxCount,
   sectors |-> {U32(SmallSector), <<BigSectorHi, 0>>},
   pols    |-> BOOLEAN,
   wait    |-> WaitResults,
   io      |-> WaitResults,
   cmd     |-> CmdAnswered({0, 1, 5}) \cup CmdFailed,
   resp    |-> {5, 229, 11, 235, 13, 255},
   follow  |-> {},
   legal   |-> FALSE,
   data    |-> {"P"},
   csd     |-> {PlainCsd},
   drives  |-> {0},
   holds   |-> {0},
   dmas    |-> {FALSE},
   buffs   |-> {0}]

LeanD ==
  [ops     |-> {"init", "read", "write", "sync"},
   track   |-> FALSE,
   bufs    |-> {TRUE},
   counts  |-> {1},
   sectors |-> {U32(SmallSector)},
   pols    |-> {TRUE},
   wait    |-> {"SD_OK", "SD_TIMEOUT"},
   io      |-> {"SD_OK"},
   cmd     |-> CmdAnswered({0, 1}),
   resp    |-> {5},
   follow  |-> {},
   legal   |-> FALSE,
   data    |-> {"P"},
   csd     |-> {PlainCsd},
   drives  |-> {0},
   holds   |-> {0},
   dmas    |-> {FALSE},
   buffs   |-> {0}]

\* A card that keeps to the protocol, of either type; the bus may still time
\* out or fail during the data, and a block may be refused for its CRC.
DataD ==
  [LeanD EXCEPT !.sectors = MediumSectors,
                !.io = {"SD_OK", "SD_ERROR"},
                !.cmd = CmdAnswered({0}),
                !.resp = {5, 229, 11, 13},
                !.follow = {"medium"},
                !.legal = TRUE,
                !.data = Payloads]

\* Cards and buses of every kind during the init sequence: any R1 byte, a
\* command that fails, any R7 and OCR, any CSD register.
InitD ==
  [LeanD EXCEPT !.io = {"SD_OK", "SD_ERROR"},
                !.cmd = CmdAnswered({0, 1, 5}) \cup CmdFailed,
                !.follow = {"geometry", "history"},
                !.csd = CsdRegisters]

\* A faultless card with any CSD register.
CsdD ==
  [LeanD EXCEPT !.ops = {"init", "sync"},
                !.follow = {"geometry", "history"},
                !.csd = CsdFields]

\* The bridge called with every argument class, on a bus that may fail.
DiskD ==
  [LeanD EXCEPT !.bufs = BOOLEAN,
                !.counts = {0, 1},
                !.follow = {"geometry"},
                !.drives = {0, 1}]

\* Every entry point and argument class, the statistics followed.
StatsD ==
  [LeanD EXCEPT !.ops = Ops,
                !.bufs = BOOLEAN,
                !.counts = 0..MaxCount,
                !.follow = {"stats"}]

\* A card and a bus without a fault, but for the time the card stays busy
\* after a block it accepted: none, one millisecond more than the driver
\* waits, or longer than a whole call waits.
BusyD ==
  [LeanD EXCEPT !.track = TRUE,
                !.wait = {"SD_OK"},
                !.cmd = CmdAnswered({0}),
                !.follow = {"stats", "attempts", "clock"},
                !.legal = TRUE,
                !.holds = {0, SD_WRITE_BUSY_TIMEOUT_MS + 1,
                           4 * SD_WRITE_BUSY_TIMEOUT_MS}]

\* Transfers of one and of two blocks with DMA switched on or off in the
\* handle, from buffers at a multiple of SD_DMA_ALIGNMENT, at a multiple of 4
\* only, and at an odd address; the transfer of the data is followed.
DmaD ==
  [LeanD EXCEPT !.ops = {"init", "read", "readm", "write", "writem"},
                !.track = TRUE,
                !.counts = {1, 2},
                !.wait = {"SD_OK"},
                !.io = {"SD_OK", "SD_ERROR"},
                !.follow = {"dma"},
                !.dmas = BOOLEAN,
                !.buffs = {2 * SD_DMA_ALIGNMENT, 2 * SD_DMA_ALIGNMENT + 4,
                           2 * SD_DMA_ALIGNMENT + 1}]

\* Calls whose waits and loops are followed turn by turn up to their
\* deadlines, with transfers by DMA or polled that may fail or time out.
LiveD ==
  [LeanD EXCEPT !.track = TRUE,
                !.io = {"SD_OK", "SD_TIMEOUT"},
                !.follow = {"ticks", "dma"},
                !.dmas = BOOLEAN,
                !.buffs = {2 * SD_DMA_ALIGNMENT}]

LiveSyncD == [LiveD EXCEPT !.ops = {"sync"}]

\* SD_SPI_Init and SD_Sync on a card and a bus that may fail at every step,
\* the bytes clocked followed with the level of CS.
WireD ==
  [LeanD EXCEPT !.ops = {"init", "sync"},
                !.track = TRUE,
                !.wait = WaitResults,
                !.io = {"SD_OK", "SD_ERROR"},
                !.cmd = CmdAnswered({0, 1}) \cup CmdFailed,
                !.follow = {"wire"}]

\* Multi-block transfers of two blocks on a card and a bus that may fail at
\* every step of every block; the loop of the helper is followed.
MultiD ==
  [LeanD EXCEPT !.ops = {"init", "readm", "writem"},
                !.track = TRUE,
                !.counts = {MaxCount},
                !.wait = WaitResults,
                !.io = WaitResults,
                !.cmd = CmdAnswered({0, 1}) \cup CmdFailed,
                !.resp = {5, 11, 13},
                !.follow = {"multi"}]

\* Transfers by DMA of one and of two blocks in both directions, the
\* completion signals and the interrupts followed.
SigD ==
  [LeanD EXCEPT !.ops = {"init", "read", "readm", "write", "writem"},
                !.track = TRUE,
                !.counts = {1, 2},
                !.wait = {"SD_OK"},
                !.follow = {"dma", "signal"},
                !.dmas = {TRUE},
                !.buffs = {2 * SD_DMA_ALIGNMENT}]

\* Single-block transfers in which every primitive may time out or fail;
\* the status each primitive returned is followed, and the statistics.
PrimD ==
  [LeanD EXCEPT !.track = TRUE,
                !.wait = WaitResults,
                !.io = WaitResults,
                !.cmd = CmdAnswered({0, 1}) \cup CmdFailed,
                !.follow = {"prims", "stats"}]

\* Single-block transfers on a card and a bus that may fail at every step of
\* every attempt; the attempts are counted.
RetryD ==
  [LeanD EXCEPT !.track = TRUE,
                !.io = {"SD_OK", "SD_ERROR"},
                !.cmd = CmdAnswered({0, 1}) \cup CmdFailed,
                !.resp = {5, 11, 13},
                !.follow = {"attempts"}]

\* Init calls from a task and from interrupt handlers, counted.
AttemptD == [LeanD EXCEPT !.track = TRUE, !.follow = {"stats"}]
AttemptIsrD == [AttemptD EXCEPT !.ops = {"init"}]

\* Two tasks whose calls time out; SD_RecordStatus is followed load by
\* store.
RaceD ==
  [LeanD EXCEPT !.ops = {"init", "sync"},
                !.track = TRUE,
                !.follow = {"stats", "race"}]

\* A task that only calls SD_Sync, on a card that is ready in time.
SyncD == [LeanD EXCEPT !.ops = {"sync"}, !.wait = {"SD_OK"}]

\* The calls made from interrupt handlers: every argument class.
IsrD == [LeanD EXCEPT !.ops = Ops, !.bufs = BOOLEAN, !.counts = {0, 1}]

(***************************************************************************)
(* Small operators on the state.                                           *)
(***************************************************************************)
\* What SD_SendCommand(cmd) may come back with.
Answers(D, cmd, hcs) ==
  IF D.legal
  THEN CmdAnswered(LegalR1(cmd, card, hcs)) \cup (D.cmd \cap CmdFailed)
  ELSE D.cmd

\* The part of the state D follows: new if it does, else as it was.
Follow(D, part, new, old) == IF part \in D.follow THEN new ELSE old

\* The card ms milliseconds later.
Elapse(c, ms) == [c EXCEPT !.hold = IF @ > ms THEN @ - ms ELSE 0]

\* SD_WaitReady(timeout_ms) on a card that keeps MISO low for c.hold more
\* milliseconds: 0xFF is read before the deadline, or SD_TIMEOUT.
SD_WaitReady(c, timeout_ms) ==
  IF c.hold >= timeout_ms THEN "SD_TIMEOUT" ELSE "SD_OK"

\* What an SD_WaitReady(timeout_ms) may come back with: by the clock where D
\* follows it, else anything D allows.
Waits(D, timeout_ms) ==
  IF "clock" \in D.follow THEN {SD_WaitReady(card, timeout_ms)} ELSE D.wait

\* What SD_SendCommand(cmd) may come back with when the clock is looked at:
\* the SD_WaitReady(SD_CMD_TIMEOUT_MS) in front of the frame first.
TimedAnswers(D, cmd, hcs) ==
  IF "clock" \in D.follow /\ SD_WaitReady(card, SD_CMD_TIMEOUT_MS) # "SD_OK"
  THEN {[st |-> "SD_TIMEOUT", wr |-> FALSE, r |-> 255, framed |-> FALSE]}
  ELSE Answers(D, cmd, hcs)

\* What a polling loop with a deadline (SD_WaitReady, SD_WaitDataToken) may
\* end with after l.polls ticks, MaxPolls being the deadline: SD_TIMEOUT only
\* once the deadline has passed.
Polled(D, l, results) ==
  IF "ticks" \in D.follow /\ l.polls < MaxPolls
  THEN results \ {"SD_TIMEOUT"}
  ELSE results

\* HAL_GetTick() < deadline at the bottom of a do-while loop of SD_SPI_Init.
BeforeDeadline(D, l) ==
  IF "ticks" \in D.follow /\ l.polls >= MaxPolls THEN {FALSE} ELSE BOOLEAN

\* Once more round a loop: SD_BackoffDelay() has let a tick go by.
TickedNever(D, l) == l
Ticked(D, l) ==
  Follow(D, "ticks", [l EXCEPT !.polls = @ + 1], l)

\* A new deadline: deadline = HAL_GetTick() + timeout.
Deadline(D, l) == Follow(D, "ticks", [l EXCEPT !.polls = 0], l)

\* SD_IsAligned(ptr, align).
SD_IsAlignedAlways(ptr, align) == TRUE
SD_IsAligned(ptr, align) == ptr % align = 0

\* bool use_dma = sd_handle->use_dma && SD_IsAligned(buff, SD_DMA_ALIGNMENT),
\* computed once per Internal helper from the buffer it is given.
UseDma(l) == l.use_dma /\ SD_IsAligned(l.buff, SD_DMA_ALIGNMENT)

\* A buffer as the memory system holds it: what the CPU sees (cache) and what
\* a DMA master sees (ram).  SD_CacheClean writes the cache lines back.
SD_CacheClean(m) == [m EXCEPT !.ram = m.cache]

\* The 512 bytes a block transfer puts on MOSI: the caller's data for a
\* write, s_dummy_tx (0xFF) for a read; HAL_SPI_Transmit reads them through
\* the CPU, the DMA stream from memory after SD_CacheClean.
WireBytes(op, data, dma) ==
  LET m == [cache |-> IF op \in {"write", "writem"} THEN data ELSE "FF",
            ram |-> "stale"]
  IN IF dma THEN SD_CacheClean(m).ram ELSE m.cache

\* (void)xSemaphoreTake(sem, 0) and dma_xx_done = false in front of the
\* start of a transfer in direction dir: the signal of that direction is
\* taken away.
SD_DrainNever(s, dir) == s
SD_Drain(s, dir) == [s EXCEPT ![dir] = "none"]

\* History: the signals that are still there when a transfer starts were
\* given for an earlier one.
Aged(s) ==
  [s EXCEPT !.tx = IF @ = "none" THEN @ ELSE "stale",
            !.rx = IF @ = "none" THEN @ ELSE "stale"]

\* HAL_SPI_Transmit_DMA / HAL_SPI_TransmitReceive_DMA: HAL_BUSY while the
\* peripheral has a transfer in flight, else HAL_OK or an error.
HalStart(s) == IF s.hw # "idle" THEN {FALSE} ELSE BOOLEAN

\* HAL_SPI_Abort: the peripheral stops; no interrupt of the transfer follows.
HAL_SPI_AbortNone(s) == s
HAL_SPI_Abort(s) == [s EXCEPT !.hw = "idle"]

\* HAL_SPI_TxCpltCallback / HAL_SPI_RxCpltCallback (dir "tx" / "rx") for the
\* SPI of the owner: done = true and xSemaphoreGiveFromISR.
Given(s, dir, who) == IF s.owner THEN [s EXCEPT ![dir] = who] ELSE s
HAL_SPI_CpltCallback(s, dir) == Given(s, dir, "own")

\* HAL_SPI_ErrorCallback: both flags set, both semaphores given.
HAL_SPI_ErrorCallback(s) == Given(Given(s, "tx", "err"), "rx", "err")

\* xSemaphoreTake(sem, SD_DMA_TIMEOUT_MS) returned pdTRUE (the semaphore is
\* empty again) or the loop on the done flag saw it set (it stays set).
Taken(s, dir) == IF s.build = "rtos" THEN [s EXCEPT ![dir] = "none"] ELSE s

\* How the transfer ended for the initiator once it saw the signal sig.
Woken(sig) ==
  CASE sig = "own" -> "done"
    [] sig = "err" -> "done_err"
    [] OTHER -> "done_stale"

DmaEnds == {"failed", "aborted", "done", "done_err", "done_stale"}

\* What the DMA branch of SD_SPI_Transmit / SD_SPI_TransmitReceive returns:
\* SD_ERROR when the start failed, SD_TIMEOUT after the abort, SD_OK after
\* the signal.
DmaResult(d) ==
  CASE d = "failed" -> {"SD_ERROR"}
    [] d = "aborted" -> {"SD_TIMEOUT"}
    [] d \in {"done", "done_err", "done_stale"} -> {"SD_OK"}
    [] OTHER -> {}

\* What SD_SPI_Transmit / SD_SPI_TransmitReceive of a block may return.  On
\* the DMA path: SD_ERROR when HAL_SPI_..._DMA does not start the transfer,
\* and once it runs SD_OK on the completion callback or SD_TIMEOUT after
\* SD_DMA_TIMEOUT_MS; on the polled path whatever the HAL call returns.
Transfers(D, l) ==
  IF "dma" \notin D.follow \/ ~UseDma(l) THEN D.io
  ELSE IF "signal" \in D.follow THEN DmaResult(l.dma)
  ELSE IF l.dma = "running" THEN {"SD_OK", "SD_TIMEOUT"}
  ELSE {"SD_ERROR"}

\* The locals after the transfer came back with o: HAL_SPI_Abort on the
\* timeout of a DMA transfer.
AfterTransfer(D, l, o) ==
  IF "signal" \in D.follow
  THEN [l EXCEPT !.dma = "idle",
                 !.ends = IF UseDma(l) THEN @ \cup {l.dma} ELSE @]
  ELSE Follow(D, "dma",
              [l EXCEPT !.dma = IF UseDma(l) /\ l.dma = "running"
                                     /\ o = "SD_TIMEOUT"
                                THEN "aborted" ELSE "idle"],
              l)

\* SD_BackoffDelay() after an attempt that ended with st: one millisecond.
SD_BackoffDelay(c, st) == IF st # "SD_OK" THEN Elapse(c, 1) ELSE c

\* History: one more single-block attempt has ended, with st.
Attempted(D, l, st) ==
  Deadline(D, Follow(D, "attempts",
                     [l EXCEPT !.tries = @ + 1, !.last = st,
                               !.okSeen = @ \/ st = "SD_OK",
                               !.delays = IF st # "SD_OK" THEN @ + 1 ELSE @],
                     l))

Goto(t, p) == pc' = [pc EXCEPT ![t] = p]
SetLoc(t, l) == loc' = [loc EXCEPT ![t] = l]
Touch(l) == [l EXCEPT !.touched = TRUE]

\* A command frame on the wire: 0x40 | cmd, then the 32-bit argument.
FrameEv(t, cmd, arg) ==
  [NoEv EXCEPT !.kind = "frame", !.t = t, !.op = call[t].op, !.cmd = cmd,
               !.arg = arg, !.sector = call[t].sector, !.count = call[t].count,
               !.sdhc = is_sdhc, !.seq = loc[t].seq,
               !.cmd0Ok = loc[t].cmd0Ok, !.acmdOk = loc[t].acmdOk,
               !.r7 = loc[t].r7, !.ocr = loc[t].ocr,
               !.tries = loc[t].tries, !.last = loc[t].last,
               !.okSeen = loc[t].okSeen, !.delays = loc[t].delays]

CmdEv(t, o, cmd, arg) == IF o.framed THEN FrameEv(t, cmd, arg) ELSE NoEv

\* SD_Select and SD_Deselect: the level they drive the CS pin to.
SD_SelectNone(c) == c
SD_Select(c) == "RESET"
SD_Deselect(c) == "SET"

\* The bytes clocked by a run of bus operations that starts with CS at level
\* c, each with the level CS had when it was clocked, and the level CS is
\* left at.  "cmd" stands for the bytes of a command, a poll or a data
\* phase, "trail" for the 0xFF after SD_Deselect, "cold" for the ten 0xFF
\* that open SD_SPI_Init.
RECURSIVE BusRun(_, _)
BusRun(c, ops) ==
  IF ops = <<>> THEN [cs |-> c, bytes |-> <<>>]
  ELSE IF Head(ops) = "select" THEN BusRun(SD_Select(c), Tail(ops))
  ELSE IF Head(ops) = "deselect" THEN BusRun(SD_Deselect(c), Tail(ops))
  ELSE LET r == BusRun(c, Tail(ops))
       IN [r EXCEPT !.bytes = <<[what |-> Head(ops), cs |-> c]>> \o @]

\* The event e of a step of task t, with the bytes the step clocked.
Bus(D, t, e, ops) ==
  IF "wire" \notin D.follow THEN e
  ELSE LET r == BusRun(cs, ops)
       IN [e EXCEPT !.kind = IF e.kind = "none" THEN "byte" ELSE @,
                    !.t = t, !.op = call[t].op,
                    !.csl = r.bytes, !.csend = r.cs]

Bracket == <<"select", "cmd">>
BracketEnd == <<"deselect", "trail">>

\* A block of data on the wire: by which path, which block of the call, from
\* or to which address, the bytes on MOSI, the status.
DataEv(t, l, o) ==
  [NoEv EXCEPT !.kind = "data", !.t = t, !.op = call[t].op,
               !.count = call[t].count, !.status = o,
               !.path = IF UseDma(l) THEN "dma" ELSE "polled",
               !.i = l.i, !.addr = l.buff + l.i * SD_BLOCK_SIZE,
               !.use_dma = l.use_dma, !.data = call[t].data, !.dma = l.dma,
               !.wire = WireBytes(call[t].op, call[t].data, UseDma(l))]

\* The return of a call: who, which call, which arguments, what status, from
\* where ("entry": before SD_Lock, "lock": SD_Lock failed, "end": after
\* SD_Unlock), and the history of the call.
RetEv(t, c, inisr, st, why, l) ==
  [NoEv EXCEPT !.kind = "ret", !.t = t, !.op = c.op, !.isr = inisr,
               !.buf = c.buf, !.count = c.count, !.status = st, !.why = why,
               !.touched = l.touched, !.lockTO = l.lockTO,
               !.absent = l.absent, !.uninit = l.uninit,
               !.init0 = l.init0, !.gRet = l.gRet, !.gSet = l.gSet,
               !.data = l.data, !.s0 = l.s0, !.ocr = l.ocr, !.seq = l.seq,
               !.cmd0Ok = l.cmd0Ok, !.acmdOk = l.acmdOk, !.r7 = l.r7,
               !.tries = l.tries, !.last = l.last, !.okSeen = l.okSeen,
               !.delays = l.delays, !.held = l.held, !.reheld = l.reheld,
               !.refused = l.refused, !.dma = l.dma, !.multi = l.multi,
               !.prim = l.prim, !.ends = l.ends,
               !.expect = Remembered(hist.shadow, c),
               !.sure = Remembered(hist.sure, c),
               !.via = c.via, !.fn = BridgeFn(c),
               !.ctl = IF BridgeFn(c) = "ioctl" THEN "CTRL_SYNC" ELSE "none",
               !.res = BridgeResult(c, st), !.sta = BridgeStatus(c, st)]

\* The data-response byte read after a written block and what the driver
\* made of it.
RespEv(t, b, c) ==
  [NoEv EXCEPT !.kind = "resp", !.t = t, !.op = call[t].op, !.byte = b,
               !.class = c]

\* RecordCounters (below) that takes every failure for a timeout.
RecordCountersAllTimeouts(s, st) ==
  [s EXCEPT !.error_count = IF st # "SD_OK" THEN @ + 1 ELSE @,
            !.timeout_count = IF st # "SD_OK" THEN @ + 1 ELSE @]

\* The counters after SD_RecordStatus(status).
RecordCounters(s, st) ==
  [s EXCEPT !.error_count = IF st # "SD_OK" THEN @ + 1 ELSE @,
            !.timeout_count = IF st = "SD_TIMEOUT" THEN @ + 1 ELSE @]

\* SD_RecordStatus (below) that leaves last_status alone.
SD_RecordStatusCountersOnly(D, s, st) ==
  /\ UNCHANGED last_status
  /\ stats' = IF "stats" \in D.follow THEN RecordCounters(s, st) ELSE stats

\* SD_RecordStatus on the (non-null) handle, the counters being s before.  A
\* specification that does not look at last_status (D.track false) or at the
\* counters leaves them out.
SD_RecordStatus(D, s, st) ==
  /\ last_status' = IF D.track THEN st ELSE last_status
  /\ stats' = IF "stats" \in D.follow THEN RecordCounters(s, st) ELSE stats

\* The locals that are still alive when a call leaves its last bracket.
Finish(l, st) ==
  [NoLoc EXCEPT !.status = st, !.touched = l.touched, !.lockTO = l.lockTO,
                !.absent = l.absent, !.uninit = l.uninit,
                !.init0 = l.init0, !.gRet = l.gRet, !.gSet = l.gSet,
                !.data = l.data, !.s0 = l.s0, !.seq = l.seq,
                !.cmd0Ok = l.cmd0Ok, !.acmdOk = l.acmdOk, !.r7 = l.r7,
                !.ocr = l.ocr, !.tries = l.tries, !.last = l.last,
                !.okSeen = l.okSeen, !.delays = l.delays, !.held = l.held,
                !.reheld = l.reheld, !.refused = l.refused, !.dma = l.dma,
                !.multi = l.multi, !.prim = l.prim, !.ends = l.ends]

handle == <<initialized, is_sdhc, last_status>>
quiet == <<stats, block_size, capacity_blocks, card, hist>>
cdvars == <<has_cd, cd_active_low, cd_pin>>
lockvars == <<mutex, holder>>

-----------------------------------------------------------------------------
(***************************************************************************)
(* Entry of a public call: everything up to the call of SD_Lock.           *)
(***************************************************************************)
\* The history a call starts with.
CallStart(op, present) ==
  [NoLoc EXCEPT !.absent = ~present,
                !.uninit = (op = "sync" /\ ~initialized),
                !.init0 = initialized,
                !.gRet = gate.ret, !.gSet = gate.set,
                !.s0 = stats]

\* The history of the handle after a call has returned st.
GateAfterReturn(st) ==
  IF st = "SD_NO_MEDIA" THEN [ret |-> TRUE, set |-> TRUE] ELSE gate

\* A specification that follows the counters stops calling when one of them
\* has reached MaxStat.
Room(D) ==
  /\ "stats" \in D.follow => \A f \in DOMAIN stats : stats[f] < MaxStat
  /\ "race" \in D.follow => hist.timeouts < MaxStat

\* The shadows after a single-block write of c.data to c.sector has come back
\* from the bus with st, the handle addressing by sdhc; a write that was
\* turned away before it drove the bus leaves them alone.
ShadowAfter(D, c, st, sdhc, touched) ==
  IF "medium" \in D.follow /\ c.op = "write" /\ c.count = 1 /\ touched
     /\ c.sector \in DOMAIN hist.shadow
  THEN LET v == IF st = "SD_OK" THEN c.data ELSE "unknown"
       IN [hist EXCEPT
             !.shadow = [@ EXCEPT ![c.sector] = v],
             !.sure = IF ~sdhc /\ c.sector[1] >= WrapHi
                      THEN [b \in DOMAIN @ |-> "unknown"]
                      ELSE [@ EXCEPT ![c.sector] = v]]
  ELSE hist

\* Where a task is when the driver function is entered.
EntryPc(via) == IF via = "disk" THEN "bridge" ELSE "idle"

Enter(t, D, via, op, buf, sector, count, data) ==
  /\ pc[t] = EntryPc(via)
  /\ Room(D)
  /\ LET present == SD_IsCardPresent(has_cd, cd_active_low, cd_pin)
         e == EntryCheck(op, buf, count, initialized, present)
         c == [op |-> op, buf |-> buf, sector |-> sector, count |-> count,
               via |-> via, data |-> data]
         l == CallStart(op, present)
     IN IF e = "PASS"
        THEN /\ Goto(t, "lock")
             /\ call' = [call EXCEPT ![t] = c]
             /\ SetLoc(t, l)
             /\ stats' = IF "stats" \in D.follow
                         THEN CountInitAttempt(op, stats) ELSE stats
             /\ ev' = NoEv
             /\ UNCHANGED <<handle, gate>>
        ELSE /\ initialized' = InitializedAfter(e, initialized)
             /\ SD_RecordStatus(D, stats, e)
             /\ gate' = GateAfterReturn(e)
             /\ ev' = RetEv(t, c, FALSE, e, "entry", l)
             /\ Goto(t, "idle")
             /\ call' = [call EXCEPT ![t] = NoCall]
             /\ UNCHANGED <<loc, is_sdhc>>
  /\ UNCHANGED <<lockvars, cs, cdvars, block_size, capacity_blocks, card, hist>>

\* The same call made from an interrupt handler: SD_InISR() is true, so
\* SD_Lock returns at once and the whole call is one step.
IsrCall(D, op, buf, sector, count) ==
  /\ Room(D)
  /\ LET present == SD_IsCardPresent(has_cd, cd_active_low, cd_pin)
         e == EntryCheck(op, buf, count, initialized, present)
         c == [op |-> op, buf |-> buf, sector |-> sector, count |-> count,
               via |-> "api", data |-> "none"]
         l == CallStart(op, present)
         st == IF e = "PASS" THEN SD_Lock(TRUE, mutex, holder) ELSE e
         s == IF e = "PASS" THEN CountInitAttempt(op, stats) ELSE stats
     IN /\ initialized' = InitializedAfter(e, initialized)
        /\ SD_RecordStatus(D, s, st)
        /\ gate' = GateAfterReturn(st)
        /\ ev' = RetEv(0, c, TRUE, st, IF e = "PASS" THEN "lock" ELSE "entry", l)
  /\ UNCHANGED <<pc, call, loc, lockvars, cs, is_sdhc, cdvars, block_size,
                 capacity_blocks, card, hist>>

\* The call of SD_Lock from a task.  A status other than SD_OK is recorded and
\* returned at once.
Lock(t, D) ==
  /\ pc[t] = "lock"
  /\ LET st == SD_Lock(FALSE, mutex, holder)
         l == [loc[t] EXCEPT !.lockTO = (mutex # "NULL" /\ holder # 0)]
     IN IF st = "SD_OK"
        THEN /\ holder' = t
             /\ Goto(t, "locked")
             /\ SetLoc(t, l)
             /\ ev' = NoEv
             /\ UNCHANGED <<call, last_status, stats>>
        ELSE /\ SD_RecordStatus(D, stats, st)
             /\ Goto(t, "idle")
             /\ call' = [call EXCEPT ![t] = NoCall]
             /\ SetLoc(t, NoLoc)
             /\ ev' = RetEv(t, call[t], FALSE, st, "lock", l)
             /\ UNCHANGED holder
  /\ UNCHANGED <<gate, mutex, cs, initialized, is_sdhc, cdvars, block_size,
                 capacity_blocks, card, hist>>

\* SD_Unlock at the end of a call that took the mutex.
Unlock(t) ==
  /\ pc[t] = "unlock"
  /\ holder' = SD_Unlock(t, mutex, holder)
  /\ Goto(t, "rec")
  /\ ev' = NoEv
  /\ UNCHANGED <<gate, quiet, call, loc, mutex, cs, handle, cdvars>>

\* The return of a call that took the mutex, after its SD_RecordStatus.  The
\* clock is followed within a call only: the next call finds the card ready.
Return(t, D) ==
  /\ Goto(t, "idle")
  /\ call' = [call EXCEPT ![t] = NoCall]
  /\ IF call[t].op = "init" /\ loc[t].status = "SD_OK"
     THEN /\ gate' = [gate EXCEPT !.ret = FALSE]
          /\ loc' = [u \in Tasks |->
                       IF u = t THEN NoLoc ELSE [loc[u] EXCEPT !.gRet = FALSE]]
     ELSE /\ SetLoc(t, NoLoc)
          /\ UNCHANGED gate
  /\ LET h == ShadowAfter(D, call[t], loc[t].status, is_sdhc, loc[t].touched)
     IN hist' = Follow(D, "race",
                       [h EXCEPT !.timeouts =
                          IF loc[t].status = "SD_TIMEOUT" THEN @ + 1 ELSE @],
                       h)
  /\ ev' = RetEv(t, call[t], FALSE, loc[t].status, "end", loc[t])
  /\ card' = Follow(D, "clock", [card EXCEPT !.hold = 0], card)
  /\ UNCHANGED <<lockvars, cs, initialized, is_sdhc, cdvars, block_size,
                 capacity_blocks>>

\* return SD_RecordStatus(sd_handle, status) after SD_Unlock.
Record(t, D) ==
  /\ pc[t] = "rec"
  /\ SD_RecordStatus(D, stats, loc[t].status)
  /\ Return(t, D)

\* SD_RecordStatus where two tasks may be in it at once: last_status is
\* written and the counters are loaded ...
Record_Load(t, D) ==
  /\ pc[t] = "rec"
  /\ last_status' = IF D.track THEN loc[t].status ELSE last_status
  /\ SetLoc(t, [loc[t] EXCEPT !.snap = stats])
  /\ Goto(t, "rec_store")
  /\ ev' = NoEv
  /\ UNCHANGED <<gate, quiet, call, lockvars, cs, initialized, is_sdhc,
                 cdvars>>

\* ... and the incremented counters are stored: error_count++ and
\* timeout_count++ write what was loaded plus one, whatever another task has
\* stored in between.
Record_Store(t, D) ==
  /\ pc[t] = "rec_store"
  /\ stats' = RecordCounters(
                [stats EXCEPT
                   !.error_count =
                      IF loc[t].status # "SD_OK"
                      THEN loc[t].snap.error_count ELSE @,
                   !.timeout_count =
                      IF loc[t].status = "SD_TIMEOUT"
                      THEN loc[t].snap.timeout_count ELSE @],
                loc[t].status)
  /\ UNCHANGED last_status
  /\ Return(t, D)

-----------------------------------------------------------------------------
(***************************************************************************)
(* The FatFs bridge on the global handle.  A bridge function that returns  *)
(* without calling the driver is one step; one that calls the driver makes *)
(* its own tests first ("bridge") and the driver function runs from there. *)
(***************************************************************************)
\* The return of a bridge function that did not call the driver.
BridgeEv(t, fn, pdrv, buf, count, present) ==
  [NoEv EXCEPT !.kind = "dret", !.t = t, !.via = "disk", !.fn = fn,
               !.pdrv = pdrv, !.buf = buf, !.count = count,
               !.absent = ~present, !.init0 = initialized]

\* The bridge function returns as it came.
BridgeReturn(e) ==
  /\ ev' = e
  /\ UNCHANGED <<pc, call, loc, lockvars, cs, handle, gate, quiet, cdvars>>

\* The bridge function goes on to call the driver function op.
BridgeCall(t, op, buf, sector, count, data) ==
  /\ Goto(t, "bridge")
  /\ call' = [call EXCEPT ![t] =
                [op |-> op, buf |-> buf, sector |-> sector, count |-> count,
                 via |-> "disk", data |-> data]]
  /\ ev' = NoEv
  /\ UNCHANGED <<loc, lockvars, cs, handle, gate, quiet, cdvars>>

\* SD_disk_status(drv).
Disk_Status(t, drv) ==
  /\ pc[t] = "idle"
  /\ LET present == SD_IsCardPresent(has_cd, cd_active_low, cd_pin)
     IN BridgeReturn([BridgeEv(t, "status", drv, FALSE, 0, present) EXCEPT
                        !.sta = SD_disk_status(drv, present, initialized)])

\* SD_disk_initialize(drv) up to the call of SD_SPI_Init.
Disk_Initialize(t, drv) ==
  /\ pc[t] = "idle"
  /\ LET present == SD_IsCardPresent(has_cd, cd_active_low, cd_pin)
         r == DiskInitializeCheck(drv, present)
     IN IF r = {"CALL"}
        THEN BridgeCall(t, "init", FALSE, U32(0), 0, "none")
        ELSE BridgeReturn([BridgeEv(t, "initialize", drv, FALSE, 0, present)
                             EXCEPT !.sta = r])

\* SD_disk_read and SD_disk_write up to the call of SD_ReadBlocks or
\* SD_WriteBlocks.
Disk_Rw(t, op, pdrv, buf, sector, count, data) ==
  /\ pc[t] = "idle"
  /\ LET present == SD_IsCardPresent(has_cd, cd_active_low, cd_pin)
         r == DiskRwCheck(pdrv, buf, count, initialized, present)
     IN IF r = "CALL"
        THEN BridgeCall(t, op, buf, sector, count, data)
        ELSE BridgeReturn([BridgeEv(t, op, pdrv, buf, count, present)
                             EXCEPT !.res = r])

\* SD_disk_ioctl(pdrv, cmd, buff) up to the call of SD_Sync.
Disk_Ioctl(t, pdrv, cmd, buf) ==
  /\ pc[t] = "idle"
  /\ LET present == SD_IsCardPresent(has_cd, cd_active_low, cd_pin)
         r == DiskIoctlCheck(pdrv, cmd, buf, capacity_blocks)
     IN IF r.res = "CALL"
        THEN BridgeCall(t, "sync", FALSE, U32(0), 0, "none")
        ELSE BridgeReturn([BridgeEv(t, "ioctl", pdrv, buf, 0, present)
                             EXCEPT !.ctl = cmd, !.res = r.res,
                                    !.out = IF r.wr THEN r.out ELSE U32(0)])

\* The driver function the bridge calls, with the arguments it passes on.
Disk_Call(t, D) ==
  /\ pc[t] = "bridge"
  /\ Enter(t, D, "disk", call[t].op, call[t].buf, call[t].sector,
           call[t].count, call[t].data)

-----------------------------------------------------------------------------
(***************************************************************************)
(* Pure helpers of the block I/O engine.                                   *)
(***************************************************************************)
\* x * k in uint32_t arithmetic (k below 2^15): the product modulo 2^32.
MulU32(x, k) ==
  <<(x[1] * k + (x[2] * k) \div Half) % Half, (x[2] * k) % Half>>

\* BlockAddress (below) without the multiplication.
BlockAddressNoScale(sdhc, sector) == sector

\* uint32_t address = is_sdhc ? sector : (sector * SD_BLOCK_SIZE);
BlockAddress(sdhc, sector) ==
  IF sdhc THEN sector ELSE MulU32(sector, SD_BLOCK_SIZE)

\* DataResponse (below) that takes every byte for "accepted".
DataResponseAcceptAll(response) == "accepted"

\* The test made on the data-response byte after a written block: "accepted",
\* or the status the write ends with.
DataResponse(response) ==
  IF (response % (SD_DATA_RESP_MASK + 1)) = SD_DATA_RESP_ACCEPTED THEN "accepted"
  ELSE IF response = SD_DATA_RESP_CRC_ERR THEN "SD_CRC_ERROR"
  ELSE "SD_WRITE_ERROR"

\* if (!sd_handle->initialized) { SD_Unlock; return SD_ERROR; } in
\* SD_ReadBlocks and SD_WriteBlocks.
BlocksCheck(init) == IF ~init THEN "SD_ERROR" ELSE "PASS"

\* InternalCheck (below) left out.
InternalCheckNone(init) == "PASS"

\* if (!sd_handle->initialized) return SD_ERROR; in the two multi-block
\* Internal helpers (their argument check cannot fail after the caller's).
InternalCheck(init) == IF ~init THEN "SD_ERROR" ELSE "PASS"

\* History: the call has looked at initialized.
Seen(l) == [l EXCEPT !.uninit = l.uninit \/ ~initialized]

\* History: the status st that SD_SendCommand, SD_WaitDataToken, SD_WaitReady
\* or the 512-byte transfer handed to the Internal helper in this attempt.
Primitive(D, l, st) == Follow(D, "prims", [l EXCEPT !.prim = st], l)

\* RetryAgain (below) of a loop that makes one attempt only.
RetryNever(st, attempt) == FALSE

\* RetryAgain (below) of a loop that goes round once more.
RetryOnceMore(st, attempt) == st # "SD_OK" /\ attempt <= SD_MAX_RETRIES

\* for (attempt = 0; attempt <= SD_MAX_RETRIES; attempt++) { status = ...;
\* if (status == SD_OK) break; SD_BackoffDelay(); }: where the loop goes after
\* an attempt that ended with st.
RetryAgain(st, attempt) == st # "SD_OK" /\ attempt + 1 <= SD_MAX_RETRIES

\* EndAttempt (below) without the SD_Deselect.
EndAttemptNoDeselect(t, l, st, again) ==
  /\ cs' = "RESET"
  /\ IF st # "SD_OK" /\ l.attempt + 1 <= SD_MAX_RETRIES
     THEN /\ Goto(t, again)
          /\ SetLoc(t, [l EXCEPT !.status = st, !.attempt = l.attempt + 1])
     ELSE /\ Goto(t, "unlock")
          /\ SetLoc(t, Finish(l, st))

\* The end of one SD_ReadSingleBlockInternal / SD_WriteSingleBlockInternal:
\* CS has been deasserted, the trailing 0xFF sent, and st is returned to the
\* retry loop of SD_ReadBlocks / SD_WriteBlocks.
EndAttempt(t, l, st, again) ==
  /\ cs' = "SET"
  /\ IF RetryAgain(st, l.attempt)
     THEN /\ Goto(t, again)
          /\ SetLoc(t, [l EXCEPT !.status = st, !.attempt = l.attempt + 1])
     ELSE /\ Goto(t, "unlock")
          /\ SetLoc(t, Finish(l, st))

\* The end of the last bracket of a call: deassert CS, trailing 0xFF, and st
\* is what the call will return.
EndBracket(t, l, st) ==
  /\ cs' = "SET"
  /\ Goto(t, "unlock")
  /\ SetLoc(t, Finish(l, st))

-----------------------------------------------------------------------------
(***************************************************************************)
(* SD_ReadBlocks, SD_WriteBlocks, SD_ReadMultiBlocks, SD_WriteMultiBlocks  *)
(* after SD_Lock returned SD_OK.                                           *)
(***************************************************************************)
\* SD_ReadBlocks / SD_WriteBlocks: the initialized check, the statistics, the
\* address and the choice between the retried single block and the Internal
\* multi-block helper.
RW_Admit(t, D) ==
  /\ pc[t] = "locked"
  /\ call[t].op \in {"read", "write"}
  /\ IF BlocksCheck(initialized) # "PASS"
     THEN /\ Goto(t, "unlock")
          /\ SetLoc(t, Finish(Seen(loc[t]), BlocksCheck(initialized)))
          /\ UNCHANGED stats
     ELSE /\ \E u \in D.dmas, b \in D.buffs :
               SetLoc(t, [Seen(loc[t]) EXCEPT
                            !.address = BlockAddress(is_sdhc, call[t].sector),
                            !.status = "SD_OK", !.attempt = 0,
                            !.use_dma = u, !.buff = b])
          /\ stats' = Follow(D, "stats",
                             CountTransfer(call[t].op, call[t].count, stats),
                             stats)
          /\ Goto(t, IF call[t].count = 1
                     THEN (IF call[t].op = "read" THEN "rs_cmd" ELSE "ws_cmd")
                     ELSE (IF call[t].op = "read" THEN "rm_cmd" ELSE "wm_cmd"))
  /\ ev' = NoEv
  /\ UNCHANGED <<gate, block_size, capacity_blocks, card, hist, call,
                 lockvars, cs, handle, cdvars>>

\* SD_ReadMultiBlocks / SD_WriteMultiBlocks: the statistics, then the helper.
RWM_Admit(t, D) ==
  /\ pc[t] = "locked"
  /\ call[t].op \in {"readm", "writem"}
  /\ stats' = Follow(D, "stats",
                     CountTransfer(call[t].op, call[t].count, stats), stats)
  /\ \E u \in D.dmas, b \in D.buffs :
       SetLoc(t, [loc[t] EXCEPT !.use_dma = u, !.buff = b])
  /\ Goto(t, IF call[t].op = "readm" THEN "rm_cmd" ELSE "wm_cmd")
  /\ ev' = NoEv
  /\ UNCHANGED <<gate, block_size, capacity_blocks, card, hist, call,
                 lockvars, cs, handle, cdvars>>

(***************************************************************************)
(* SD_ReadSingleBlockInternal.                                             *)
(***************************************************************************)
\* SD_Select, SD_SendCommand(CMD17, address).
RS_Cmd(t, D) ==
  /\ pc[t] = "rs_cmd"
  /\ \E o \in Answers(D, CMD17, loc[t].sdv2) :
       LET l == Touch([loc[t] EXCEPT !.response = IF o.wr THEN o.r ELSE 255])
       IN /\ ev' = CmdEv(t, o, CMD17, loc[t].address)
          /\ IF o.st # "SD_OK" \/ l.response # 0
             THEN EndAttempt(t, Attempted(D, Primitive(D, l, o.st),
                                          "SD_ERROR"),
                             "SD_ERROR", "rs_cmd")
             ELSE /\ cs' = "RESET"
                  /\ Goto(t, "rs_tok")
                  /\ SetLoc(t, [l EXCEPT !.status = o.st])
  /\ UNCHANGED <<gate, quiet, call, lockvars, handle, cdvars>>

\* SD_WaitDataToken(SD_DATA_TOKEN_TIMEOUT_MS).
RS_Token(t, D) ==
  /\ pc[t] = "rs_tok"
  /\ \E o \in Polled(D, loc[t], D.wait) :
       IF o # "SD_OK"
       THEN EndAttempt(t, Attempted(D, Primitive(D, loc[t], o), o), o,
                       "rs_cmd")
       ELSE /\ Goto(t, "rs_data")
            /\ UNCHANGED <<loc, cs>>
  /\ ev' = NoEv
  /\ UNCHANGED <<gate, quiet, call, lockvars, handle, cdvars>>

\* The 512-byte SD_SPI_TransmitReceive, the two CRC bytes, SD_Deselect and the
\* trailing 0xFF.
RS_Data(t, D) ==
  /\ pc[t] = "rs_data"
  /\ \E o \in Transfers(D, loc[t]) :
       /\ EndAttempt(t, [Attempted(D, Primitive(D, AfterTransfer(D, loc[t],
                                                                  o), o),
                                   o) EXCEPT
                           !.data = IF "medium" \in D.follow /\ o = "SD_OK"
                                    THEN CardRead(card, loc[t].address)
                                    ELSE @],
                     o, "rs_cmd")
       /\ ev' = Follow(D, "dma", DataEv(t, loc[t], o), NoEv)
  /\ UNCHANGED <<gate, quiet, call, lockvars, handle, cdvars>>

(***************************************************************************)
(* SD_WriteSingleBlockInternal.                                            *)
(***************************************************************************)
\* SD_Select, SD_SendCommand(CMD24, address).
WS_Cmd(t, D) ==
  /\ pc[t] = "ws_cmd"
  /\ \E o \in TimedAnswers(D, CMD24, loc[t].sdv2) :
       LET l == Touch([loc[t] EXCEPT !.response = IF o.wr THEN o.r ELSE 255])
           c == Elapse(card, SD_CMD_TIMEOUT_MS)
       IN /\ ev' = CmdEv(t, o, CMD24, loc[t].address)
          /\ IF o.st # "SD_OK" \/ l.response # 0
             THEN /\ EndAttempt(t, Attempted(D, Primitive(D, l, o.st),
                                             "SD_ERROR"),
                                "SD_ERROR", "ws_cmd")
                  /\ card' = Follow(D, "clock",
                                    SD_BackoffDelay(c, "SD_ERROR"), card)
             ELSE /\ cs' = "RESET"
                  /\ Goto(t, "ws_data")
                  /\ SetLoc(t, [l EXCEPT !.status = o.st])
                  /\ card' = Follow(D, "clock", c, card)
  /\ UNCHANGED <<gate, stats, block_size, capacity_blocks, hist, call,
                 lockvars, handle, cdvars>>

\* The start token 0xFE and the 512-byte SD_SPI_Transmit.
WS_Data(t, D) ==
  /\ pc[t] = "ws_data"
  /\ \E o \in Transfers(D, loc[t]) :
       /\ ev' = Follow(D, "dma", DataEv(t, loc[t], o), NoEv)
       /\ IF o # "SD_OK"
          THEN /\ EndAttempt(t, Attempted(D, Primitive(D, AfterTransfer(
                                                           D, loc[t], o), o),
                                          o),
                             o, "ws_cmd")
               /\ LET c == Follow(D, "medium",
                                  CardStore(card, loc[t].address, "junk"),
                                  card)
                  IN card' = Follow(D, "clock", SD_BackoffDelay(c, o), c)
          ELSE /\ Goto(t, "ws_resp")
               /\ SetLoc(t, [AfterTransfer(D, loc[t], o) EXCEPT
                               !.status = o])
               /\ UNCHANGED <<cs, card>>
  /\ UNCHANGED <<gate, stats, block_size, capacity_blocks, hist, call,
                 lockvars, handle, cdvars>>

\* The two CRC filler bytes and the data-response byte.  The result of the
\* SD_ReceiveByte is not looked at: when it fails, response keeps the R1 byte
\* of the command (0x00).  A card that accepted the block is busy with it for
\* h milliseconds.
WS_Resp(t, D) ==
  /\ pc[t] = "ws_resp"
  /\ \E b \in D.resp \cup {loc[t].response}, h \in D.holds :
       LET l == [loc[t] EXCEPT !.response = b]
           c == Follow(D, "medium",
                       CardAfterResponse(card, loc[t].address, b,
                                         call[t].data), card)
       IN /\ ev' = RespEv(t, b, DataResponse(b))
          /\ IF DataResponse(b) # "accepted"
             THEN /\ EndAttempt(t, Attempted(D, Follow(D, "clock",
                                                   [l EXCEPT !.refused = TRUE],
                                                   Primitive(D, l, "none")),
                                             DataResponse(b)),
                                DataResponse(b), "ws_cmd")
                  /\ card' = Follow(D, "clock",
                                    SD_BackoffDelay(c, DataResponse(b)), c)
             ELSE /\ Goto(t, "ws_busy")
                  /\ SetLoc(t, Follow(D, "clock",
                                      [l EXCEPT
                                         !.held = IF @ = -1 THEN h ELSE @,
                                         !.reheld = @ \/ (l.held # -1 /\ h > 0)],
                                      l))
                  /\ card' = Follow(D, "clock", [c EXCEPT !.hold = h], c)
                  /\ UNCHANGED cs
  /\ UNCHANGED <<gate, stats, block_size, capacity_blocks, hist, call,
                 lockvars, handle, cdvars>>

\* SD_WaitReady(SD_WRITE_BUSY_TIMEOUT_MS), SD_Deselect, trailing 0xFF.
WS_Busy(t, D) ==
  /\ pc[t] = "ws_busy"
  /\ \E o \in Polled(D, loc[t], Waits(D, SD_WRITE_BUSY_TIMEOUT_MS)) :
       /\ EndAttempt(t, Attempted(D, Primitive(D, loc[t], o), o), o,
                     "ws_cmd")
       /\ card' = Follow(D, "clock",
                         SD_BackoffDelay(
                           Elapse(card, SD_WRITE_BUSY_TIMEOUT_MS), o),
                         card)
  /\ ev' = NoEv
  /\ UNCHANGED <<gate, stats, block_size, capacity_blocks, hist, call,
                 lockvars, handle, cdvars>>

(***************************************************************************)
(* The loops of the multi-block helpers.                                   *)
(***************************************************************************)
\* NextBlock (below) of a loop that goes on after a failed block.
NextBlockAnyway(st, i, count) == i + 1 < count

\* for (i = 0; i < count; i++) { ...; if (status != SD_OK) break; ... }: after
\* block i ended with st the loop goes on to block i + 1.
NextBlock(st, i, count) == st = "SD_OK" /\ i + 1 < count

\* History: SD_SendCommand(CMD18 / CMD25) came back with o.
Opened(D, l, o) ==
  Follow(D, "multi",
         [l EXCEPT !.multi.opened = @ + 1,
                   !.multi.accepted = (o.st = "SD_OK" /\ o.wr /\ o.r = 0)],
         l)

\* History: a step of block l.i ended with st; moved: it was the 512-byte
\* transfer.
BlockStep(D, l, st, moved) ==
  Follow(D, "multi",
         [l EXCEPT !.multi.moved = IF moved THEN @ + 1 ELSE @,
                   !.multi.late = @ \/ l.multi.failed # -1,
                   !.multi.failed = IF @ = -1 /\ st # "SD_OK" THEN l.i ELSE @,
                   !.multi.bad = IF l.multi.failed = -1 /\ st # "SD_OK"
                                 THEN st ELSE @],
         l)

\* History: the SD_WaitReady after the stop token returned st.
FinalWait(D, l, st) == Follow(D, "multi", [l EXCEPT !.multi.final = st], l)

\* History: the stop step ran, with CS at level c.
Stopped(D, l, how, c) ==
  Follow(D, "multi", [l EXCEPT !.multi.stop = how, !.multi.csStop = c], l)

(***************************************************************************)
(* SD_ReadMultiBlocksInternal.                                             *)
(***************************************************************************)
\* The initialized check, the address, SD_Select, SD_SendCommand(SD_CMD18).
RM_Cmd(t, D) ==
  /\ pc[t] = "rm_cmd"
  /\ IF InternalCheck(initialized) # "PASS"
     THEN /\ Goto(t, "unlock")
          /\ SetLoc(t, Finish(Seen(loc[t]), InternalCheck(initialized)))
          /\ ev' = NoEv
          /\ UNCHANGED cs
     ELSE \E o \in Answers(D, SD_CMD18, loc[t].sdv2) :
            LET a == BlockAddress(is_sdhc, call[t].sector)
                l == Opened(D, Touch([Seen(loc[t]) EXCEPT
                                        !.address = a, !.i = 0,
                                        !.response = IF o.wr THEN o.r
                                                     ELSE 255]), o)
            IN /\ ev' = CmdEv(t, o, SD_CMD18, a)
               /\ IF o.st # "SD_OK" \/ l.response # 0
                  THEN EndBracket(t, l, "SD_ERROR")
                  ELSE /\ cs' = "RESET"
                       /\ Goto(t, "rm_tok")
                       /\ SetLoc(t, [l EXCEPT !.status = o.st])
  /\ UNCHANGED <<gate, quiet, call, lockvars, handle, cdvars>>

\* for (i = 0; i < count; i++): SD_WaitDataToken for block i.
RM_Token(t, D) ==
  /\ pc[t] = "rm_tok"
  /\ \E o \in Polled(D, loc[t], D.wait) :
       /\ SetLoc(t, [BlockStep(D, Deadline(D, loc[t]), o, FALSE) EXCEPT
                       !.status = o])
       /\ Goto(t, IF o = "SD_OK" THEN "rm_data" ELSE "rm_stop")
  /\ ev' = NoEv
  /\ UNCHANGED <<gate, quiet, call, lockvars, cs, handle, cdvars>>

\* The 512-byte SD_SPI_TransmitReceive of block i, its two CRC bytes, i++.
RM_Data(t, D) ==
  /\ pc[t] = "rm_data"
  /\ \E o \in Transfers(D, loc[t]) :
       /\ ev' = Follow(D, "dma", DataEv(t, loc[t], o), NoEv)
       /\ IF NextBlock(o, loc[t].i, call[t].count)
          THEN /\ SetLoc(t, [BlockStep(D, AfterTransfer(D, loc[t], o), o,
                                       TRUE) EXCEPT
                               !.status = o, !.i = loc[t].i + 1])
               /\ Goto(t, "rm_tok")
          ELSE /\ SetLoc(t, [BlockStep(D, AfterTransfer(D, loc[t], o), o,
                                       TRUE) EXCEPT
                               !.status = o,
                               !.i = IF o = "SD_OK" THEN loc[t].i + 1
                                     ELSE loc[t].i])
               /\ Goto(t, "rm_stop")
  /\ UNCHANGED <<gate, quiet, call, lockvars, cs, handle, cdvars>>

\* (void)SD_SendCommand(SD_CMD12), SD_Deselect, trailing 0xFF; return status.
RM_Stop(t, D) ==
  /\ pc[t] = "rm_stop"
  /\ \E o \in Answers(D, SD_CMD12, loc[t].sdv2) :
       /\ ev' = CmdEv(t, o, SD_CMD12, U32(0))
       /\ EndBracket(t, Stopped(D, loc[t],
                                IF o.framed THEN "framed" ELSE "unframed",
                                cs),
                     loc[t].status)
  /\ UNCHANGED <<gate, quiet, call, lockvars, handle, cdvars>>

(***************************************************************************)
(* SD_WriteMultiBlocksInternal.                                            *)
(***************************************************************************)
\* The initialized check, the address, SD_Select, SD_SendCommand(SD_CMD25).
WM_Cmd(t, D) ==
  /\ pc[t] = "wm_cmd"
  /\ IF InternalCheck(initialized) # "PASS"
     THEN /\ Goto(t, "unlock")
          /\ SetLoc(t, Finish(Seen(loc[t]), InternalCheck(initialized)))
          /\ ev' = NoEv
          /\ UNCHANGED cs
     ELSE \E o \in Answers(D, SD_CMD25, loc[t].sdv2) :
            LET a == BlockAddress(is_sdhc, call[t].sector)
                l == Opened(D, Touch([Seen(loc[t]) EXCEPT
                                        !.address = a, !.i = 0,
                                        !.response = IF o.wr THEN o.r
                                                     ELSE 255]), o)
            IN /\ ev' = CmdEv(t, o, SD_CMD25, a)
               /\ IF o.st # "SD_OK" \/ l.response # 0
                  THEN EndBracket(t, l, "SD_ERROR")
                  ELSE /\ cs' = "RESET"
                       /\ Goto(t, "wm_data")
                       /\ SetLoc(t, [l EXCEPT !.status = o.st])
  /\ UNCHANGED <<gate, quiet, call, lockvars, handle, cdvars>>

\* for (i = 0; i < count; i++): the start token 0xFC and the 512-byte
\* SD_SPI_Transmit of block i.
WM_Data(t, D) ==
  /\ pc[t] = "wm_data"
  /\ \E o \in Transfers(D, loc[t]) :
       /\ SetLoc(t, [BlockStep(D, AfterTransfer(D, loc[t], o), o, TRUE) EXCEPT
                       !.status = o])
       /\ Goto(t, IF o = "SD_OK" THEN "wm_resp" ELSE "wm_stop")
       /\ ev' = Follow(D, "dma", DataEv(t, loc[t], o), NoEv)
  /\ UNCHANGED <<gate, quiet, call, lockvars, cs, handle, cdvars>>

\* The two CRC filler bytes and the data-response byte of block i.
WM_Resp(t, D) ==
  /\ pc[t] = "wm_resp"
  /\ \E b \in D.resp \cup {loc[t].response} :
       /\ ev' = RespEv(t, b, DataResponse(b))
       /\ IF DataResponse(b) # "accepted"
          THEN /\ SetLoc(t, [BlockStep(D, loc[t], DataResponse(b), FALSE)
                               EXCEPT !.response = b,
                                      !.status = DataResponse(b)])
               /\ Goto(t, "wm_stop")
          ELSE /\ SetLoc(t, [BlockStep(D, loc[t], "SD_OK", FALSE) EXCEPT
                               !.response = b])
               /\ Goto(t, "wm_busy")
  /\ UNCHANGED <<gate, quiet, call, lockvars, cs, handle, cdvars>>

\* SD_WaitReady(SD_WRITE_BUSY_TIMEOUT_MS) after block i, i++.
WM_Busy(t, D) ==
  /\ pc[t] = "wm_busy"
  /\ \E o \in Polled(D, loc[t], D.wait) :
       IF NextBlock(o, loc[t].i, call[t].count)
       THEN /\ SetLoc(t, [BlockStep(D, Deadline(D, loc[t]), o, FALSE) EXCEPT
                            !.status = o, !.i = loc[t].i + 1])
            /\ Goto(t, "wm_data")
       ELSE /\ SetLoc(t, [BlockStep(D, Deadline(D, loc[t]), o, FALSE) EXCEPT
                            !.status = o,
                            !.i = IF o = "SD_OK" THEN loc[t].i + 1 ELSE loc[t].i])
            /\ Goto(t, "wm_stop")
  /\ ev' = NoEv
  /\ UNCHANGED <<gate, quiet, call, lockvars, cs, handle, cdvars>>

\* The stop token 0xFD, (void)SD_WaitReady, SD_Deselect, trailing 0xFF;
\* return status.
WM_Stop(t, D) ==
  /\ pc[t] = "wm_stop"
  /\ \E o \in Polled(D, loc[t], D.wait) :
       EndBracket(t, FinalWait(D, Stopped(D, loc[t], "token", cs), o),
                  loc[t].status)
  /\ ev' = NoEv
  /\ UNCHANGED <<gate, quiet, call, lockvars, handle, cdvars>>

(***************************************************************************)
(* Inside the bus primitives, where a specification follows them.          *)
(***************************************************************************)
WaitPcs == {"rs_tok", "ws_busy", "rm_tok", "wm_busy", "wm_stop", "sy_wait"}
DataPcs == {"rs_data", "ws_data", "rm_data", "wm_data"}

\* SD_WaitReady / SD_WaitDataToken: the byte read is not the one waited for,
\* SD_BackoffDelay(), and HAL_GetTick() < timeout still holds.
PollAgain(t, D) ==
  /\ "ticks" \in D.follow
  /\ pc[t] \in WaitPcs
  /\ loc[t].polls < MaxPolls
  /\ SetLoc(t, Ticked(D, loc[t]))
  /\ ev' = NoEv
  /\ UNCHANGED <<gate, quiet, pc, call, lockvars, cs, handle, cdvars>>

\* SD_SPI_Transmit / SD_SPI_TransmitReceive with use_dma: SD_CacheClean,
\* dma_done = false, and HAL_SPI_..._DMA returns HAL_OK: the transfer runs.
Dma_Start(t, D) ==
  /\ "dma" \in D.follow
  /\ pc[t] \in DataPcs
  /\ UseDma(loc[t])
  /\ loc[t].dma # "running"
  /\ SetLoc(t, [loc[t] EXCEPT !.dma = "running"])
  /\ ev' = NoEv
  /\ UNCHANGED <<gate, quiet, pc, call, lockvars, cs, handle, cdvars>>

(***************************************************************************)
(* The DMA branch of SD_SPI_Transmit / SD_SPI_TransmitReceive step by step *)
(* and the interrupts of the SPI peripheral, where the completion signals  *)
(* are followed.                                                           *)
(***************************************************************************)
\* SD_SPI_TransmitReceive waits for the rx signal, SD_SPI_Transmit for tx.
DmaDir(p) == IF p \in {"rs_data", "rm_data"} THEN "rx" ELSE "tx"

\* The drain of the signal, done = false, and HAL_SPI_..._DMA: HAL_OK and the
\* transfer is in flight, or not HAL_OK and the function returns SD_ERROR.
Sig_Start(t, D) ==
  /\ "signal" \in D.follow
  /\ pc[t] \in DataPcs
  /\ UseDma(loc[t])
  /\ loc[t].dma = "idle"
  /\ \E ok \in HalStart(hist.sig) :
       LET s == SD_Drain(Aged(hist.sig), DmaDir(pc[t]))
       IN /\ hist' = [hist EXCEPT
                        !.sig = IF ok THEN [s EXCEPT !.hw = DmaDir(pc[t])]
                                ELSE s]
          /\ SetLoc(t, [loc[t] EXCEPT
                          !.dma = IF ok THEN "running" ELSE "failed",
                          !.polls = 0])
  /\ ev' = NoEv
  /\ UNCHANGED <<gate, stats, block_size, capacity_blocks, card, pc, call,
                 lockvars, cs, handle, cdvars>>

\* A millisecond of the wait goes by.
Sig_Tick(t, D) ==
  /\ "signal" \in D.follow
  /\ loc[t].dma = "running"
  /\ loc[t].polls < MaxPolls
  /\ SetLoc(t, [loc[t] EXCEPT !.polls = @ + 1])
  /\ ev' = NoEv
  /\ UNCHANGED <<gate, quiet, pc, call, lockvars, cs, handle, cdvars>>

\* The wait ends on the signal of its direction.
Sig_Wake(t, D) ==
  /\ "signal" \in D.follow
  /\ loc[t].dma = "running"
  /\ hist.sig[DmaDir(pc[t])] # "none"
  /\ hist' = [hist EXCEPT !.sig = Taken(@, DmaDir(pc[t]))]
  /\ SetLoc(t, [loc[t] EXCEPT !.dma = Woken(hist.sig[DmaDir(pc[t])])])
  /\ ev' = NoEv
  /\ UNCHANGED <<gate, stats, block_size, capacity_blocks, card, pc, call,
                 lockvars, cs, handle, cdvars>>

\* SD_DMA_TIMEOUT_MS have gone by without the signal.
Sig_Timeout(t, D) ==
  /\ "signal" \in D.follow
  /\ loc[t].dma = "running"
  /\ loc[t].polls = MaxPolls
  /\ hist.sig[DmaDir(pc[t])] = "none"
  /\ SetLoc(t, [loc[t] EXCEPT !.dma = "timedout"])
  /\ ev' = NoEv
  /\ UNCHANGED <<gate, quiet, pc, call, lockvars, cs, handle, cdvars>>

\* (void)HAL_SPI_Abort(hspi) and return SD_TIMEOUT.
Sig_Abort(t, D) ==
  /\ "signal" \in D.follow
  /\ loc[t].dma = "timedout"
  /\ hist' = [hist EXCEPT !.sig = HAL_SPI_Abort(@)]
  /\ SetLoc(t, [loc[t] EXCEPT !.dma = "aborted"])
  /\ ev' = NoEv
  /\ UNCHANGED <<gate, stats, block_size, capacity_blocks, card, pc, call,
                 lockvars, cs, handle, cdvars>>

\* The transfer in flight completes: HAL_SPI_TxCpltCallback, or
\* HAL_SPI_TxRxCpltCallback which calls HAL_SPI_RxCpltCallback.
Isr_Cplt ==
  /\ hist.sig.hw # "idle"
  /\ hist' = [hist EXCEPT
               !.sig = HAL_SPI_CpltCallback([@ EXCEPT !.hw = "idle"],
                                            hist.sig.hw)]
  /\ ev' = NoEv
  /\ UNCHANGED <<gate, stats, block_size, capacity_blocks, card, pc, call,
                 loc, lockvars, cs, handle, cdvars>>

\* The transfer in flight ends with the error interrupt of the peripheral:
\* HAL_SPI_ErrorCallback.
Isr_Error ==
  /\ hist.sig.hw # "idle"
  /\ hist' = [hist EXCEPT
               !.sig = HAL_SPI_ErrorCallback([@ EXCEPT !.hw = "idle"])]
  /\ ev' = NoEv
  /\ UNCHANGED <<gate, stats, block_size, capacity_blocks, card, pc, call,
                 loc, lockvars, cs, handle, cdvars>>

SigSteps(t, D) ==
  \/ Sig_Start(t, D) \/ Sig_Tick(t, D) \/ Sig_Wake(t, D)
  \/ Sig_Timeout(t, D) \/ Sig_Abort(t, D)

(***************************************************************************)
(* The waits with a deadline, by the tick: SD_WaitReady, SD_WaitDataToken, *)
(* the CMD0 and ACMD41 loops of SD_SPI_Init (do ... while (HAL_GetTick() < *)
(* deadline)) and the poll of the done flag in the build without RTOS      *)
(* (while (!done && HAL_GetTick() < timeout)).  Every wait has MaxPolls     *)
(* ticks, and SD_BackoffDelay() lets one tick go by.                       *)
(***************************************************************************)
DoWhileWaits == {"wait_ready", "wait_data_token", "cmd0_loop", "acmd41_loop"}
TimedWaits == DoWhileWaits \cup {"dma_poll"}

\* x + k in uint32_t (k below 2^16).
AddU32(x, k) ==
  <<(x[1] + (x[2] + k) \div Half) % Half, (x[2] + k) % Half>>

\* x < y in uint32_t.
LessU32(x, y) == x[1] < y[1] \/ (x[1] = y[1] /\ x[2] < y[2])

\* The values of HAL_GetTick() at the start of a wait: after the reset, in
\* mid-range, and within the timeout of the wrap.
StartTicks ==
  {U32(0), <<BigSectorHi, 0>>}
  \cup {<<Half - 1, Half - k>> : k \in 1..(MaxPolls + 1)}

\* uint32_t timeout = HAL_GetTick() + timeout_ms;
TimeoutAt(now, ms) == AddU32(now, ms)

\* A wait of kind w starts while HAL_GetTick() is now.
Wait_Start(t, w, now) ==
  /\ pc[t] = "idle"
  /\ call' = [call EXCEPT ![t] = [NoCall EXCEPT !.op = w]]
  /\ SetLoc(t, [NoLoc EXCEPT !.tick = now,
                             !.deadline = TimeoutAt(now, MaxPolls)])
  /\ Goto(t, IF w \in DoWhileWaits THEN "w_poll" ELSE "w_check")
  /\ ev' = NoEv
  /\ UNCHANGED <<gate, quiet, lockvars, cs, handle, cdvars>>

\* The end of a wait with st after loc[t].polls ticks.
Wait_Return(t, st) ==
  /\ Goto(t, "idle")
  /\ call' = [call EXCEPT ![t] = NoCall]
  /\ SetLoc(t, NoLoc)
  /\ ev' = [NoEv EXCEPT !.kind = "wait", !.t = t, !.op = call[t].op,
                        !.status = st, !.waited = loc[t].polls]

\* The body of a do-while loop: the byte or the answer looked for has come
\* (return or break), the receive failed (SD_WaitReady and SD_WaitDataToken
\* return SD_ERROR), or neither.
Wait_Poll(t) ==
  /\ pc[t] = "w_poll"
  /\ \/ Wait_Return(t, "SD_OK")
     \/ /\ call[t].op \in {"wait_ready", "wait_data_token"}
        /\ Wait_Return(t, "SD_ERROR")
     \/ /\ Goto(t, "w_delay")
        /\ ev' = NoEv
        /\ UNCHANGED <<call, loc>>
  /\ UNCHANGED <<gate, quiet, lockvars, cs, handle, cdvars>>

\* SD_BackoffDelay(): a tick later.
Wait_Delay(t) ==
  /\ pc[t] = "w_delay"
  /\ SetLoc(t, [loc[t] EXCEPT !.tick = AddU32(@, 1), !.polls = @ + 1])
  /\ Goto(t, "w_check")
  /\ ev' = NoEv
  /\ UNCHANGED <<gate, quiet, call, lockvars, cs, handle, cdvars>>

\* The loop condition: HAL_GetTick() < timeout, for the done flag after
\* !done; when it fails the wait reports its timeout.
Wait_Check(t) ==
  /\ pc[t] = "w_check"
  /\ \E done \in IF call[t].op = "dma_poll" THEN BOOLEAN ELSE {FALSE} :
       IF done THEN Wait_Return(t, "SD_OK")
       ELSE IF LessU32(loc[t].tick, loc[t].deadline)
       THEN /\ Goto(t, IF call[t].op = "dma_poll" THEN "w_delay"
                       ELSE "w_poll")
            /\ ev' = NoEv
            /\ UNCHANGED <<call, loc>>
       ELSE Wait_Return(t, "SD_TIMEOUT")
  /\ UNCHANGED <<gate, quiet, lockvars, cs, handle, cdvars>>

(***************************************************************************)
(* SD_Sync after SD_Lock returned SD_OK.                                   *)
(***************************************************************************)
\* SD_Select.
Sync_Select(t) ==
  /\ pc[t] = "locked"
  /\ call[t].op = "sync"
  /\ cs' = "RESET"
  /\ Goto(t, "sy_wait")
  /\ SetLoc(t, Touch(loc[t]))
  /\ ev' = NoEv
  /\ UNCHANGED <<gate, quiet, call, lockvars, handle, cdvars>>

\* SD_WaitReady(SD_WRITE_BUSY_TIMEOUT_MS), SD_Deselect, trailing 0xFF.
Sync_Wait(t, D) ==
  /\ pc[t] = "sy_wait"
  /\ \E o \in Polled(D, loc[t], D.wait) : EndBracket(t, loc[t], o)
  /\ ev' = Bus(D, t, NoEv, <<"cmd">> \o BracketEnd)
  /\ UNCHANGED <<gate, quiet, call, lockvars, handle, cdvars>>

(***************************************************************************)
(* SD_SPI_Init after SD_Lock returned SD_OK.  loc[t].status and            *)
(* loc[t].response are its locals status and response; more stands for     *)
(* HAL_GetTick() < deadline at the bottom of a do-while loop.              *)
(***************************************************************************)
\* History: the init sequence has called SD_SendCommand for the command
\* named c; good: it came back SD_OK with the R1 byte its loop waits for.
Sent(D, l, c, good) ==
  IF "history" \in D.follow
  THEN [l EXCEPT !.seq = c,
                 !.cmd0Ok = @ \/ (c = "CMD0" /\ good),
                 !.acmdOk = @ \/ (c = "ACMD41" /\ good)]
  ELSE l

\* initialized = false, SD_Deselect, ten 0xFF bytes with CS deasserted.
Init_Start(t, D) ==
  /\ pc[t] = "locked"
  /\ call[t].op = "init"
  /\ initialized' = FALSE
  /\ cs' = "SET"
  /\ SetLoc(t, Sent(D, Touch([loc[t] EXCEPT !.status = "SD_ERROR",
                                            !.response = 255]),
                    "cold", FALSE))
  /\ hist' = Follow(D, "history",
                    [hist EXCEPT !.blklen = FALSE, !.csd = NoCsd], hist)
  /\ Goto(t, "i_cmd0")
  /\ ev' = Bus(D, t, NoEv, <<"deselect", "cold">>)
  /\ UNCHANGED <<gate, stats, block_size, capacity_blocks, card, call,
                 lockvars, is_sdhc, last_status, cdvars>>

\* A command of the init sequence inside its own bracket: SD_Select and
\* SD_SendCommand; *response is written only when the command returns SD_OK.
Init_Send(t, D, from, cmd, name, want, arg, to) ==
  /\ pc[t] = from
  /\ \E o \in Answers(D, cmd, loc[t].sdv2) :
       /\ SetLoc(t, Sent(D, [loc[t] EXCEPT
                               !.status = o.st,
                               !.response = IF o.wr THEN o.r
                                            ELSE loc[t].response],
                         name, o.st = "SD_OK" /\ o.r = want))
       /\ ev' = Bus(D, t, CmdEv(t, o, cmd, arg),
                    IF cmd = ACMD41 THEN <<"cmd">> ELSE Bracket)
  /\ cs' = "RESET"
  /\ Goto(t, to)
  /\ UNCHANGED <<gate, quiet, call, lockvars, handle, cdvars>>

\* do { SD_Select; CMD0; ...
Init_Cmd0(t, D) ==
  Init_Send(t, D, "i_cmd0", CMD0, "CMD0", 1, U32(0), "i_cmd0_end")

\* ... SD_Deselect; 0xFF; if (status == SD_OK && response == 0x01) break;
\* SD_BackoffDelay(); } while (tick < deadline); if (response != 0x01) fail.
Init_Cmd0_End(t, D) ==
  /\ pc[t] = "i_cmd0_end"
  /\ cs' = "SET"
  /\ \E more \in BeforeDeadline(D, loc[t]) :
       LET l == loc[t]
       IN IF l.status = "SD_OK" /\ l.response = 1
          THEN /\ Goto(t, "i_cmd8") /\ UNCHANGED loc
          ELSE IF more
          THEN /\ Goto(t, "i_cmd0") /\ SetLoc(t, Ticked(D, l))
          ELSE IF l.response # 1
          THEN /\ Goto(t, "unlock")
               /\ SetLoc(t, Finish(l, "SD_ERROR"))
          ELSE /\ Goto(t, "i_cmd8") /\ UNCHANGED loc
  /\ ev' = Bus(D, t, NoEv, BracketEnd)
  /\ UNCHANGED <<gate, quiet, call, lockvars, handle, cdvars>>

\* SD_Select; CMD8(0x1AA); the four R7 bytes when it returned SD_OK.  r7ok:
\* r7[2] == 0x01 && r7[3] == 0xAA.
Init_Cmd8(t, D) ==
  /\ pc[t] = "i_cmd8"
  /\ \E o \in Answers(D, CMD8, loc[t].sdv2),
        r7ok \in (IF D.legal THEN {TRUE} ELSE BOOLEAN) :
       LET r == IF o.wr THEN o.r ELSE loc[t].response
           l == [loc[t] EXCEPT
                   !.status = o.st, !.response = r,
                   !.sdv2 = (o.st = "SD_OK" /\ r = 1 /\ r7ok),
                   !.r7 = IF "history" \notin D.follow THEN @
                          ELSE IF o.st # "SD_OK" THEN "none"
                          ELSE IF r = 1 /\ r7ok THEN "echo" ELSE "other"]
       IN /\ SetLoc(t, Sent(D, l, "CMD8", FALSE))
          /\ ev' = Bus(D, t, CmdEv(t, o, CMD8, U32(426)), Bracket)
  /\ cs' = "RESET"
  /\ Goto(t, "i_cmd8_end")
  /\ UNCHANGED <<gate, quiet, call, lockvars, handle, cdvars>>

\* SD_Deselect; 0xFF; sdv2; deadline for the ACMD41 loop.
Init_Cmd8_End(t, D) ==
  /\ pc[t] = "i_cmd8_end"
  /\ cs' = "SET"
  /\ Goto(t, "i_cmd55")
  /\ SetLoc(t, Deadline(D, loc[t]))
  /\ ev' = Bus(D, t, NoEv, BracketEnd)
  /\ UNCHANGED <<gate, quiet, call, lockvars, handle, cdvars>>

\* do { SD_Select; (void)SD_SendCommand(CMD55, ..., &response); ...
Init_Cmd55(t, D) ==
  /\ pc[t] = "i_cmd55"
  /\ \E o \in Answers(D, CMD55, loc[t].sdv2) :
       /\ SetLoc(t, Sent(D, [loc[t] EXCEPT
                               !.response = IF o.wr THEN o.r
                                            ELSE loc[t].response],
                         "CMD55", FALSE))
       /\ ev' = Bus(D, t, CmdEv(t, o, CMD55, U32(0)), Bracket)
  /\ cs' = "RESET"
  /\ Goto(t, "i_acmd41")
  /\ UNCHANGED <<gate, quiet, call, lockvars, handle, cdvars>>

\* ... status = SD_SendCommand(ACMD41, sdv2 ? 0x40000000 : 0, ..., &response);
Init_Acmd41(t, D) ==
  Init_Send(t, D, "i_acmd41", ACMD41, "ACMD41", 0,
            IF loc[t].sdv2 THEN U32(1073741824) ELSE U32(0), "i_acmd_end")

\* ... SD_Deselect; 0xFF; if (status == SD_OK && response == 0x00) break;
\* SD_BackoffDelay(); } while (tick < deadline);
\* if (response != 0x00) return SD_TIMEOUT.
Init_Acmd_End(t, D) ==
  /\ pc[t] = "i_acmd_end"
  /\ cs' = "SET"
  /\ \E more \in BeforeDeadline(D, loc[t]) :
       LET l == loc[t]
       IN IF l.status = "SD_OK" /\ l.response = 0
          THEN /\ Goto(t, "i_cmd58") /\ SetLoc(t, Deadline(D, l))
          ELSE IF more
          THEN /\ Goto(t, "i_cmd55") /\ SetLoc(t, Ticked(D, l))
          ELSE IF l.response # 0
          THEN /\ Goto(t, "unlock")
               /\ SetLoc(t, Finish(l, "SD_TIMEOUT"))
          ELSE /\ Goto(t, "i_cmd58") /\ UNCHANGED loc
  /\ ev' = Bus(D, t, NoEv, BracketEnd)
  /\ UNCHANGED <<gate, quiet, call, lockvars, handle, cdvars>>

\* is_sdhc = false; SD_Select; CMD58; when it returned SD_OK with R1 0x00 the
\* four OCR bytes: ccs is ocr[0] & 0x40.
Init_Cmd58(t, D) ==
  /\ pc[t] = "i_cmd58"
  /\ \E o \in Answers(D, CMD58, loc[t].sdv2),
        ccs \in (IF D.legal THEN {card.hc} ELSE BOOLEAN) :
       LET r == IF o.wr THEN o.r ELSE loc[t].response
           l == [loc[t] EXCEPT
                   !.status = o.st, !.response = r,
                   !.ocr = IF "history" \notin D.follow THEN @
                           ELSE IF o.st # "SD_OK" \/ r # 0 THEN "none"
                           ELSE IF ccs THEN "ccs" ELSE "clear"]
       IN /\ SetLoc(t, Sent(D, l, "CMD58", FALSE))
          /\ is_sdhc' = (o.st = "SD_OK" /\ r = 0 /\ ccs)
          /\ ev' = Bus(D, t, CmdEv(t, o, CMD58, U32(0)), Bracket)
  /\ cs' = "RESET"
  /\ Goto(t, "i_cmd58_end")
  /\ UNCHANGED <<gate, quiet, call, lockvars, initialized, last_status,
                 cdvars>>

\* SD_Deselect; 0xFF; if (!is_sdhc) SD_SetBlockLength.
Init_Cmd58_End(t, D) ==
  /\ pc[t] = "i_cmd58_end"
  /\ cs' = "SET"
  /\ Goto(t, IF is_sdhc THEN "i_csd" ELSE "i_cmd16")
  /\ ev' = Bus(D, t, NoEv, BracketEnd)
  /\ UNCHANGED <<gate, quiet, call, loc, lockvars, handle, cdvars>>

\* SD_SetBlockLength (below) that is content with any R1 byte.
SD_SetBlockLengthAnyR1(o) ==
  IF o.st = "SD_OK" THEN "SD_OK" ELSE "SD_ERROR"

\* What SD_SetBlockLength returns when its SD_SendCommand came back with o
\* (its own response, 0xFF at the start): SD_ERROR unless SD_OK with R1 0x00.
SD_SetBlockLength(o) ==
  IF o.st # "SD_OK" \/ (IF o.wr THEN o.r ELSE 255) # 0 THEN "SD_ERROR"
  ELSE "SD_OK"

\* SD_SetBlockLength: SD_Select, CMD16(512), SD_Deselect, 0xFF;
\* if (status != SD_OK) unlock and return it.
Init_Cmd16(t, D) ==
  /\ pc[t] = "i_cmd16"
  /\ \E o \in Answers(D, SD_CMD16, loc[t].sdv2) :
       LET status == SD_SetBlockLength(o)
       IN /\ ev' = Bus(D, t, CmdEv(t, o, SD_CMD16, U32(SD_BLOCK_SIZE)),
                       Bracket \o BracketEnd)
          /\ SetLoc(t, Sent(D, Finish(loc[t], status), "CMD16", FALSE))
          /\ hist' = Follow(D, "history",
                            [hist EXCEPT !.blklen = o.framed /\ o.wr /\ o.r = 0],
                            hist)
          /\ Goto(t, IF status = "SD_OK" THEN "i_csd" ELSE "unlock")
  /\ cs' = "SET"
  /\ UNCHANGED <<gate, stats, block_size, capacity_blocks, card, call,
                 lockvars, handle, cdvars>>

\* SD_ParseCSD: capacity_blocks, computed in uint32_t.
SD_ParseCSD(csd) ==
  IF csd.structure = 1
  THEN MulU32(U32(csd.c_size + 1), 1024)
  ELSE IF csd.structure = 0
  THEN LET blocknr == (csd.c_size + 1) * 2^(csd.c_size_mult + 2)
           capacity_bytes == MulU32(U32(blocknr), 2^csd.read_bl_len)
       IN U32(capacity_bytes[1] * (Half \div SD_BLOCK_SIZE)
              + capacity_bytes[2] \div SD_BLOCK_SIZE)
  ELSE U32(0)

\* sd_handle->initialized = true at the end of SD_SPI_Init, which will return
\* SD_OK.
SetInitialized(t) ==
  /\ initialized' = TRUE
  /\ gate' = [gate EXCEPT !.set = FALSE]
  /\ loc' = [u \in Tasks |->
               IF u = t THEN [Finish(loc[t], "SD_OK") EXCEPT !.gSet = FALSE]
               ELSE [loc[u] EXCEPT !.gSet = FALSE]]

\* SD_ReadCSD up to the data token (its own response): SD_Select, CMD9.  When
\* the command fails SD_ReadCSD returns SD_ERROR, the capacity is unknown and
\* SD_SPI_Init still sets initialized.
Init_Csd(t, D) ==
  /\ pc[t] = "i_csd"
  /\ \E o \in Answers(D, SD_CMD9, loc[t].sdv2) :
       LET ok == o.st = "SD_OK" /\ o.wr /\ o.r = 0
       IN /\ ev' = Bus(D, t, CmdEv(t, o, SD_CMD9, U32(0)),
                       IF ok THEN Bracket ELSE Bracket \o BracketEnd)
          /\ IF ok
             THEN /\ cs' = "RESET"
                  /\ Goto(t, "i_csd_rd")
                  /\ SetLoc(t, Sent(D, loc[t], "CMD9", FALSE))
                  /\ UNCHANGED <<initialized, gate, capacity_blocks>>
             ELSE /\ cs' = "SET"
                  /\ capacity_blocks' =
                       Follow(D, "geometry", U32(0), capacity_blocks)
                  /\ SetInitialized(t)
                  /\ Goto(t, "unlock")
  /\ UNCHANGED <<call, lockvars, is_sdhc, last_status, cdvars, stats,
                 block_size, card, hist>>

\* The rest of SD_ReadCSD (data token, 16 bytes, CRC, SD_Deselect, 0xFF),
\* SD_ParseCSD, initialized = true.
Init_Csd_Read(t, D) ==
  /\ pc[t] = "i_csd_rd"
  /\ \E o1 \in D.wait, o2 \in D.io, csd \in D.csd :
       LET ok == o1 = "SD_OK" /\ o2 = "SD_OK"
       IN /\ capacity_blocks' =
               Follow(D, "geometry",
                      IF ok THEN SD_ParseCSD(csd) ELSE U32(0), capacity_blocks)
          /\ hist' = Follow(D, "history",
                            [hist EXCEPT !.csd = IF ok THEN csd ELSE NoCsd],
                            hist)
  /\ cs' = "SET"
  /\ SetInitialized(t)
  /\ Goto(t, "unlock")
  /\ ev' = Bus(D, t, NoEv, <<"cmd">> \o BracketEnd)
  /\ UNCHANGED <<call, lockvars, is_sdhc, last_status, cdvars, stats,
                 block_size, card>>

-----------------------------------------------------------------------------
(***************************************************************************)
(* Calls that take no lock, and the card-detect input.                     *)
(***************************************************************************)
\* SD_DeInit, called by a task that is not inside another call.
SD_DeInit(t) ==
  /\ pc[t] = "idle"
  /\ mutex' = "NULL"
  /\ holder' = 0
  /\ initialized' = FALSE
  /\ ev' = [NoEv EXCEPT !.kind = "deinit", !.t = t]
  /\ UNCHANGED <<gate, quiet, pc, call, loc, cs, is_sdhc, last_status,
                 cdvars>>

\* SD_Init on the same handle, binding and flags as before, while no call is
\* running on it: the handle is zeroed and the mutex created.
SD_Init(t) ==
  /\ \A u \in Tasks : pc[u] = "idle"
  /\ mutex' = "VALID"
  /\ holder' = 0
  /\ initialized' = FALSE
  /\ is_sdhc' = FALSE
  /\ has_cd' = FALSE
  /\ cd_active_low' = FALSE
  /\ last_status' = "SD_OK"
  /\ stats' = NoStats
  /\ block_size' = SD_BLOCK_SIZE
  /\ capacity_blocks' = U32(0)
  /\ ev' = NoEv
  /\ UNCHANGED <<gate, card, hist, pc, call, loc, cs, cd_pin>>

\* SD_SetCardDetect with a non-null port.
SD_SetCardDetect(t, active_low) ==
  /\ pc[t] = "idle"
  /\ has_cd' = TRUE
  /\ cd_active_low' = active_low
  /\ ev' = NoEv
  /\ UNCHANGED <<gate, quiet, pc, call, loc, lockvars, cs, handle, cd_pin>>

\* The card is pulled or pushed in: the level of the card-detect input flips.
CardDetectChange ==
  /\ has_cd
  /\ cd_pin' = IF cd_pin = "SET" THEN "RESET" ELSE "SET"
  /\ ev' = NoEv
  /\ UNCHANGED <<gate, quiet, pc, call, loc, lockvars, cs, handle, has_cd,
                 cd_active_low>>

-----------------------------------------------------------------------------
CallSteps(t, D) ==
  \/ \E op \in D.ops, buf \in D.bufs, s \in D.sectors, c \in D.counts,
          d \in D.data :
       Enter(t, D, "api", op, buf, s, c, d)
  \/ Lock(t, D)
  \/ Unlock(t)
  \/ Record(t, D)

SingleSteps(t, D) ==
  \/ RW_Admit(t, D)
  \/ RS_Cmd(t, D) \/ RS_Token(t, D) \/ RS_Data(t, D)
  \/ WS_Cmd(t, D) \/ WS_Data(t, D) \/ WS_Resp(t, D) \/ WS_Busy(t, D)

MultiSteps(t, D) ==
  \/ RWM_Admit(t, D)
  \/ RM_Cmd(t, D) \/ RM_Token(t, D) \/ RM_Data(t, D) \/ RM_Stop(t, D)
  \/ WM_Cmd(t, D) \/ WM_Data(t, D) \/ WM_Resp(t, D) \/ WM_Busy(t, D)
  \/ WM_Stop(t, D)

SyncSteps(t, D) == Sync_Select(t) \/ Sync_Wait(t, D)

InitSteps(t, D) ==
  \/ Init_Start(t, D)
  \/ Init_Cmd0(t, D) \/ Init_Cmd0_End(t, D)
  \/ Init_Cmd8(t, D) \/ Init_Cmd8_End(t, D)
  \/ Init_Cmd55(t, D) \/ Init_Acmd41(t, D) \/ Init_Acmd_End(t, D)
  \/ Init_Cmd58(t, D) \/ Init_Cmd58_End(t, D)
  \/ Init_Cmd16(t, D)
  \/ Init_Csd(t, D) \/ Init_Csd_Read(t, D)

\* The calls FatFs makes through the bridge.
DiskSteps(t, D) ==
  \/ \E drv \in D.drives : Disk_Status(t, drv)
  \/ \E drv \in D.drives : Disk_Initialize(t, drv)
  \/ \E op \in {"read", "write"}, drv \in D.drives, buf \in D.bufs,
          s \in D.sectors, c \in D.counts, d \in D.data :
       Disk_Rw(t, op, drv, buf, s, c, d)
  \/ \E drv \in D.drives, cmd \in IoctlCmds, buf \in D.bufs :
       Disk_Ioctl(t, drv, cmd, buf)
  \/ Disk_Call(t, D)
  \/ Lock(t, D)
  \/ Unlock(t)
  \/ Record(t, D)

LifeSteps(t, D) ==
  \/ SD_DeInit(t)
  \/ SD_Init(t)
  \/ \E al \in D.pols : SD_SetCardDetect(t, al)

\* Everything a task can do.
Step(t, D) ==
  \/ CallSteps(t, D) \/ SingleSteps(t, D) \/ MultiSteps(t, D)
  \/ SyncSteps(t, D) \/ InitSteps(t, D) \/ LifeSteps(t, D)

\* A task that keeps to init, sync and single-block transfers.
LeanStep(t, D) ==
  \/ CallSteps(t, D) \/ SingleSteps(t, D)
  \/ SyncSteps(t, D) \/ InitSteps(t, D) \/ LifeSteps(t, D)

Interrupt(D) ==
  \E op \in D.ops, buf \in D.bufs, s \in D.sectors, c \in D.counts :
    IsrCall(D, op, buf, s, c)

\* One task; every argument class and every fault of the card and the bus.
Next ==
  \/ \E t \in SeqTasks : Step(t, FullD)
  \/ CardDetectChange

Spec == Init /\ [][Next]_vars

\* One task, and interrupt handlers that call the API at any moment.
NextIsr ==
  \/ \E t \in SeqTasks : LeanStep(t, LeanD)
  \/ Interrupt(IsrD)
  \/ CardDetectChange

SpecIsr == Init /\ [][NextIsr]_vars

\* Several tasks on the same handle.
NextConc ==
  \/ \E t \in Tasks : LeanStep(t, LeanD)
  \/ CardDetectChange

SpecConc == Init /\ [][NextConc]_vars

\* One task writing and reading back the blocks of a card that keeps to the
\* protocol.
NextData ==
  \/ \E t \in SeqTasks : LeanStep(t, DataD)
  \/ CardDetectChange

SpecData == InitAnyCard /\ [][NextData]_vars

\* One task that initializes the card again and again, with transfers and
\* syncs in between, whatever the card answers.
NextInit ==
  \/ \E t \in SeqTasks : LeanStep(t, InitD)
  \/ CardDetectChange

SpecInit == Init /\ [][NextInit]_vars

\* One task on a card with any CSD register.
NextCsd ==
  \/ \E t \in SeqTasks :
       \/ CallSteps(t, CsdD) \/ SyncSteps(t, CsdD) \/ InitSteps(t, CsdD)
       \/ LifeSteps(t, CsdD)
  \/ CardDetectChange

SpecCsd == Init /\ [][NextCsd]_vars

\* One task on a faultless card whose busy time after a written block is
\* followed by the millisecond.
NextBusy ==
  \/ \E t \in SeqTasks : LeanStep(t, BusyD)
  \/ CardDetectChange

SpecBusy == Init /\ [][NextBusy]_vars

\* One task whose transfers go by DMA or by polling.
NextDma ==
  \/ \E t \in SeqTasks :
       \/ CallSteps(t, DmaD) \/ SingleSteps(t, DmaD) \/ MultiSteps(t, DmaD)
       \/ InitSteps(t, DmaD) \/ LifeSteps(t, DmaD) \/ Dma_Start(t, DmaD)
  \/ CardDetectChange

SpecDma == Init /\ [][NextDma]_vars

\* What a task does between the entry to a call and its return.
Progress(t, D) ==
  \/ Lock(t, D) \/ Unlock(t) \/ Record(t, D)
  \/ SingleSteps(t, D) \/ SyncSteps(t, D) \/ InitSteps(t, D)
  \/ PollAgain(t, D) \/ Dma_Start(t, D)

LiveDomain(t) == IF t \in SeqTasks THEN LiveD ELSE LiveSyncD

LiveStep(t, D) ==
  \/ \E op \in D.ops, buf \in D.bufs, s \in D.sectors, c \in D.counts,
          d \in D.data :
       Enter(t, D, "api", op, buf, s, c, d)
  \/ Progress(t, D)

\* One task making every call and the others calling SD_Sync; a task inside
\* a call keeps running, and every delay lets the tick counter advance.
NextLive ==
  \/ \E t \in Tasks : LiveStep(t, LiveDomain(t))
  \/ \E al \in LiveD.pols : SD_SetCardDetect(1, al)
  \/ CardDetectChange

SpecLive ==
  /\ Init /\ [][NextLive]_vars
  /\ \A t \in Tasks : WF_vars(Progress(t, LiveDomain(t)))

\* One task whose transfers go by DMA, in either build, and the interrupts
\* of the SPI peripheral.
NextSig ==
  \/ \E t \in SeqTasks :
       \/ CallSteps(t, SigD) \/ SingleSteps(t, SigD) \/ MultiSteps(t, SigD)
       \/ InitSteps(t, SigD) \/ SigSteps(t, SigD)
  \/ Isr_Cplt
  \/ Isr_Error

SpecSig == InitBuild /\ [][NextSig]_vars

\* One wait after the other, each from any tick.
NextWait ==
  \E t \in SeqTasks :
    \/ \E w \in TimedWaits, now \in StartTicks : Wait_Start(t, w, now)
    \/ Wait_Poll(t)
    \/ Wait_Delay(t)
    \/ Wait_Check(t)

SpecWait == Init /\ [][NextWait]_vars

\* One task that initializes and syncs, byte by byte.
NextWire ==
  \/ \E t \in SeqTasks :
       \/ CallSteps(t, WireD) \/ SyncSteps(t, WireD) \/ InitSteps(t, WireD)
       \/ LifeSteps(t, WireD)
  \/ CardDetectChange

SpecWire == Init /\ [][NextWire]_vars

\* One task that initializes the card and transfers runs of blocks.
NextMulti ==
  \/ \E t \in SeqTasks :
       \/ CallSteps(t, MultiD) \/ MultiSteps(t, MultiD)
       \/ InitSteps(t, MultiD) \/ LifeSteps(t, MultiD)
  \/ CardDetectChange

SpecMulti == Init /\ [][NextMulti]_vars

\* One task whose transfers fail in every primitive.
NextPrim ==
  \/ \E t \in SeqTasks : LeanStep(t, PrimD)
  \/ CardDetectChange

SpecPrim == Init /\ [][NextPrim]_vars

\* One task, and interrupt handlers that call SD_SPI_Init at any moment; the
\* statistics are followed.
NextAttempts ==
  \/ \E t \in SeqTasks : LeanStep(t, AttemptD)
  \/ Interrupt(AttemptIsrD)
  \/ CardDetectChange

SpecAttempts == Init /\ [][NextAttempts]_vars

\* Several tasks calling SD_SPI_Init and SD_Sync on the same handle, the
\* increments of SD_RecordStatus not being atomic.
RaceStep(t, D) ==
  \/ \E op \in D.ops, buf \in D.bufs, s \in D.sectors, c \in D.counts,
          d \in D.data :
       Enter(t, D, "api", op, buf, s, c, d)
  \/ Lock(t, D)
  \/ Unlock(t)
  \/ Record_Load(t, D)
  \/ Record_Store(t, D)
  \/ SyncSteps(t, D) \/ InitSteps(t, D)

NextRace == \E t \in Tasks : RaceStep(t, RaceD)

SpecRace == Init /\ [][NextRace]_vars

\* One task whose single-block transfers fail and are retried.
NextRetry ==
  \/ \E t \in SeqTasks : LeanStep(t, RetryD)
  \/ CardDetectChange

SpecRetry == Init /\ [][NextRetry]_vars

\* One task calling every entry point; the statistics counters are followed
\* until one of them reaches MaxStat.
NextStats ==
  \/ \E t \in SeqTasks : Step(t, StatsD)
  \/ CardDetectChange

SpecStats == Init /\ [][NextStats]_vars

\* FatFs on one task, every call going through the bridge, while the other
\* tasks call SD_Sync on the same handle.
NextDisk ==
  \/ \E t \in SeqTasks :
       \/ DiskSteps(t, DiskD) \/ SingleSteps(t, DiskD)
       \/ SyncSteps(t, DiskD) \/ InitSteps(t, DiskD) \/ LifeSteps(t, DiskD)
  \/ \E t \in Tasks \ SeqTasks :
       CallSteps(t, SyncD) \/ SyncSteps(t, SyncD)
  \/ CardDetectChange

SpecDisk == Init /\ [][NextDisk]_vars

-----------------------------------------------------------------------------
(***************************************************************************)
(* Properties.                                                             *)
(***************************************************************************)
Returned == ev.kind = "ret"
ValidArgs(e) == e.op \notin RwOps \/ (e.buf /\ e.count > 0)
GatedOps == RwOps \cup {"sync"}
AddressCmds == {CMD17, SD_CMD18, CMD24, SD_CMD25}

C2_MutualExclusion ==
  /\ Cardinality({t \in Tasks : Holding(t)}) <= 1
  /\ \A t \in Tasks : Holding(t) /\ mutex = "VALID" => holder = t
  /\ cs = "RESET" => \E t \in Tasks : Holding(t)
  /\ ev.kind \in {"frame", "resp"} =>
       /\ Holding(ev.t)
       /\ \A u \in Tasks \ {ev.t} : ~Holding(u)

\* Task 1 is inside the bracket of a single-block write, CMD24 just framed,
\* while task 2 has called a write of its own and stands at SD_Lock.
C2_Witness ==
  /\ pc[1] = "ws_data" /\ cs = "RESET" /\ holder = 1
  /\ ev.kind = "frame" /\ ev.cmd = CMD24 /\ ev.t = 1
  /\ pc[2] = "lock" /\ call[2].op = "write"

\* C3: a call whose SD_Lock found the mutex taken until the timeout returns
\* SD_BUSY from there, has not driven chip select or the bus, and never goes
\* on into the operation.
C3_BusyUntouched ==
  /\ \A t \in Tasks : ~loc[t].lockTO
  /\ Returned /\ ev.lockTO =>
       /\ ev.status = "SD_BUSY"
       /\ ev.why = "lock"
       /\ ~ev.touched

\* A write has returned SD_BUSY for the mutex timeout while the other task is
\* inside a bracket with chip select asserted.
C3_Witness ==
  /\ Returned /\ ev.lockTO /\ ev.status = "SD_BUSY" /\ ev.op = "write"
  /\ cs = "RESET"
  /\ \E u \in Tasks \ {ev.t} : Holding(u)

\* C4 as stated: every public call made from an interrupt handler returns
\* SD_BUSY, for every argument combination and every state of the handle.
C4_IsrAlwaysBusy == Returned /\ ev.isr => ev.status = "SD_BUSY"

\* C4: a call made from an interrupt handler never drives chip select or the
\* bus and returns SD_BUSY, unless a check made before SD_Lock rejects it
\* first: SD_PARAM for a null buffer or a zero count, SD_NO_MEDIA for an
\* absent card, SD_ERROR for SD_Sync on a handle that is not initialized.
C4_IsrBusy ==
  Returned /\ ev.isr =>
    /\ ~ev.touched
    /\ ev.status \in {"SD_BUSY", "SD_PARAM", "SD_NO_MEDIA", "SD_ERROR"}
    /\ ValidArgs(ev) /\ ~ev.absent /\ ~ev.uninit => ev.status = "SD_BUSY"
    /\ ev.status = "SD_PARAM" => ~ValidArgs(ev)
    /\ ev.status = "SD_NO_MEDIA" => ev.absent /\ ValidArgs(ev)
    /\ ev.status = "SD_ERROR" => ev.op = "sync" /\ ev.uninit

\* An interrupt handler has called a write with valid arguments while the
\* task holds the mutex, and got SD_BUSY.
C4_Witness ==
  /\ Returned /\ ev.isr /\ ev.op = "write" /\ ev.buf /\ ev.count = 1
  /\ ev.status = "SD_BUSY"
  /\ holder # 0 /\ cs = "RESET"

\* C5: a read or write call with a null buffer or a zero count returns
\* SD_PARAM from its entry, without SD_Lock, chip select or the bus; no such
\* call ever gets as far as SD_Lock.
C5_ParamRejected ==
  /\ Returned /\ ev.op \in RwOps /\ (~ev.buf \/ ev.count = 0) =>
       /\ ev.status = "SD_PARAM"
       /\ ev.why = "entry"
       /\ ~ev.touched
  /\ \A t \in Tasks :
       pc[t] # "idle" /\ call[t].op \in RwOps =>
         call[t].buf /\ call[t].count > 0

\* SD_WriteMultiBlocks with a buffer and a zero count on an initialized
\* handle has returned SD_PARAM.
C5_Witness ==
  /\ Returned /\ ev.op = "writem" /\ ev.buf /\ ev.count = 0
  /\ ev.status = "SD_PARAM" /\ ev.init0

C7_PresenceFirst ==
  Returned /\ ev.op \in GatedOps /\ ev.absent =>
    ev.status = "SD_NO_MEDIA" /\ ~initialized

\* C7: with the card absent, a read or write with valid arguments and a sync
\* on an initialized handle return SD_NO_MEDIA from their entry and leave
\* initialized false; a null buffer or a zero count is answered SD_PARAM and
\* a sync on a handle that is not initialized SD_ERROR before presence is
\* looked at.  No call gets to SD_Lock with the card absent, and without a
\* card-detect input no call returns SD_NO_MEDIA.
C7_PresenceGate ==
  /\ Returned /\ ev.op \in GatedOps /\ ev.absent =>
       /\ ev.why = "entry"
       /\ ~ev.touched
       /\ ev.status =
            IF ~ValidArgs(ev) THEN "SD_PARAM"
            ELSE IF ev.op = "sync" /\ ev.uninit THEN "SD_ERROR"
            ELSE "SD_NO_MEDIA"
       /\ ev.status = "SD_NO_MEDIA" => ~initialized
  /\ Returned /\ ev.status = "SD_NO_MEDIA" => has_cd /\ ev.absent
  /\ \A t \in Tasks : pc[t] # "idle" => ~loc[t].absent

\* SD_Sync on an initialized handle with the card pulled has returned
\* SD_NO_MEDIA and the handle is not initialized any more.
C7_Witness ==
  /\ Returned /\ ev.op = "sync" /\ ev.absent /\ ev.init0
  /\ ev.status = "SD_NO_MEDIA" /\ ~initialized

Wide512(sector) ==
  LET lo == sector[2] * 512
      mid == sector[1] * 512 + lo \div Half
  IN <<mid \div Half, mid % Half, lo % Half>>

\* C9 as stated: the address field of CMD17, CMD18, CMD24 and CMD25 equals the
\* sector for SDHC and the sector times 512 for SDSC, for every sector.
C9_AddressExact ==
  ev.kind = "frame" /\ ev.cmd \in AddressCmds =>
    IF ev.sdhc THEN ev.arg = ev.sector
    ELSE <<0, ev.arg[1], ev.arg[2]>> = Wide512(ev.sector)

\* C9: the address field of CMD17, CMD18, CMD24 and CMD25 equals the sector
\* for SDHC; for SDSC it is the low 32 bits of the sector times 512, which is
\* the sector times 512 for every sector below 2^23.
C9_Address ==
  ev.kind = "frame" /\ ev.cmd \in AddressCmds =>
    IF ev.sdhc THEN ev.arg = ev.sector
    ELSE /\ ev.arg = <<Wide512(ev.sector)[2], Wide512(ev.sector)[3]>>
         /\ ev.sector[1] < 128 => Wide512(ev.sector)[1] = 0

\* CMD24 for the small sector has gone to an SDSC card with the byte address.
C9_Witness ==
  /\ ev.kind = "frame" /\ ev.cmd = CMD24 /\ ~ev.sdhc
  /\ ev.sector = U32(SmallSector)
  /\ ev.arg = U32(SmallSector * SD_BLOCK_SIZE)

\* C10 as stated: the data-response byte is classified by its low five bits
\* alone: 0x05 accepted, 0x0B SD_CRC_ERROR, anything else SD_WRITE_ERROR,
\* whatever the upper three bits, in single-block and multi-block writes.
C10_LowFiveBits ==
  ev.kind = "resp" =>
    ev.class = IF ev.byte % 32 = 5 THEN "accepted"
               ELSE IF ev.byte % 32 = 11 THEN "SD_CRC_ERROR"
               ELSE "SD_WRITE_ERROR"

ReadOk == Returned /\ ev.op = "read" /\ ev.count = 1 /\ ev.status = "SD_OK"

InitOk == Returned /\ ev.op = "init" /\ ev.status = "SD_OK"

\* C12 as stated: whenever SD_SPI_Init returns SD_OK, initialized is true,
\* block_size is 512, and capacity_blocks is greater than 0 if the CSD
\* register was read and has structure version 0 or 1.
C12_InitOk ==
  InitOk =>
    /\ initialized
    /\ block_size = SD_BLOCK_SIZE
    /\ hist.csd.read /\ hist.csd.structure \in {0, 1}
         => capacity_blocks # U32(0)

\* C13: in every state where initialized is true, block_size is 512 and
\* either is_sdhc is true or the most recent init sequence sent CMD16 with
\* argument 512 and got R1 0x00.
C13_BlockLength ==
  initialized => block_size = SD_BLOCK_SIZE /\ (is_sdhc \/ hist.blklen)

\* A card taken for standard capacity is initialized, its block length set.
C13_Witness ==
  /\ InitOk /\ initialized /\ ~is_sdhc /\ hist.blklen
  /\ block_size = SD_BLOCK_SIZE /\ ev.seq = "CMD9"

InitFrame == ev.kind = "frame" /\ ev.op = "init"

\* C14 as stated: SD_SPI_Init puts on the wire CMD0 (again until one is
\* answered 0x01), then CMD8 with argument 0x1AA, then the pair CMD55, ACMD41
\* (again until an ACMD41 is answered 0x00), then CMD58, then CMD16 with
\* argument 512 exactly when the CCS bit of the OCR is not set, then CMD9; the
\* argument of ACMD41 is 0x40000000 exactly when CMD8 was answered 0x01 with
\* R7[2] = 0x01 and R7[3] = 0xAA, else 0; and is_sdhc ends up true exactly
\* when bit 6 of OCR[0] was set.  ev.seq is the command sent before this one.
C14_InitOrder ==
  /\ InitFrame /\ ev.cmd = CMD0 =>
       ev.seq \in {"cold", "CMD0"} /\ ~ev.cmd0Ok /\ ev.arg = U32(0)
  /\ InitFrame /\ ev.cmd = CMD8 =>
       ev.seq = "CMD0" /\ ev.cmd0Ok /\ ev.arg = U32(426)
  /\ InitFrame /\ ev.cmd = CMD55 =>
       ev.seq \in {"CMD8", "ACMD41"} /\ ~ev.acmdOk
  /\ InitFrame /\ ev.cmd = ACMD41 =>
       /\ ev.seq = "CMD55"
       /\ ev.arg = IF ev.r7 = "echo" THEN U32(1073741824) ELSE U32(0)
  /\ InitFrame /\ ev.cmd = CMD58 => ev.seq = "ACMD41" /\ ev.acmdOk
  /\ InitFrame /\ ev.cmd = SD_CMD16 =>
       ev.seq = "CMD58" /\ ev.ocr # "ccs" /\ ev.arg = U32(SD_BLOCK_SIZE)
  /\ InitFrame /\ ev.cmd = SD_CMD9 =>
       \/ ev.seq = "CMD58" /\ ev.ocr = "ccs"
       \/ ev.seq = "CMD16" /\ ev.ocr # "ccs"
  /\ InitOk => (is_sdhc <=> ev.ocr = "ccs")

\* C15 as stated: when a step of the init sequence fails (no CMD0 answered
\* 0x01, no ACMD41 answered 0x00, CMD58 failed or the OCR was not read, CMD16
\* was needed and not answered 0x00, CMD9 failed or the CSD was not read),
\* SD_SPI_Init returns a status other than SD_OK and leaves initialized false.
C15_InitFailure ==
  /\ Returned /\ ev.op = "init" /\ ev.touched
  /\ \/ ~ev.cmd0Ok
     \/ ~ev.acmdOk
     \/ ev.ocr = "none"
     \/ ~(is_sdhc \/ hist.blklen)
     \/ ~hist.csd.read
  => ev.status # "SD_OK" /\ ~initialized

\* A bridge function has returned without calling the driver, or after the
\* driver function it called has returned.
BridgeOnly(e, fns) == e.kind = "dret" /\ e.fn \in fns
BridgeDriver(e, fns) == e.kind = "ret" /\ e.via = "disk" /\ e.fn \in fns

\* C16: SD_disk_read and SD_disk_write return RES_PARERR when the drive is
\* not 0, count is 0 or the buffer is null; otherwise RES_NOTRDY when the card
\* is absent or the handle not initialized, without calling the driver;
\* otherwise they call the driver and return RES_OK exactly when it returned
\* SD_OK, RES_NOTRDY when it returned SD_NO_MEDIA or SD_BUSY, and RES_ERROR
\* for every other status.
C16_ReadWrite ==
  /\ BridgeOnly(ev, {"read", "write"}) =>
       IF ev.pdrv # 0 \/ ev.count = 0 \/ ~ev.buf
       THEN ev.res = "RES_PARERR"
       ELSE ev.res = "RES_NOTRDY" /\ (ev.absent \/ ~ev.init0)
  /\ BridgeDriver(ev, {"read", "write"}) =>
       /\ ev.buf /\ ev.count > 0
       /\ ev.res = CASE ev.status = "SD_OK" -> "RES_OK"
                     [] ev.status \in {"SD_NO_MEDIA", "SD_BUSY"} -> "RES_NOTRDY"
                     [] OTHER -> "RES_ERROR"
  /\ \A t \in Tasks :
       pc[t] = "bridge" /\ call[t].op \in {"read", "write"} =>
         call[t].buf /\ call[t].count > 0

\* SD_disk_read found the mutex taken: SD_BUSY becomes RES_NOTRDY.
C16_Witness ==
  /\ BridgeDriver(ev, {"read"})
  /\ ev.status = "SD_BUSY" /\ ev.lockTO /\ ev.res = "RES_NOTRDY"

\* C17: SD_disk_ioctl on a drive other than 0 returns RES_PARERR; on drive 0,
\* CTRL_SYNC calls SD_Sync and returns RES_OK exactly when that returned SD_OK
\* (else RES_ERROR); with a buffer, GET_SECTOR_SIZE stores 512,
\* GET_SECTOR_COUNT stores capacity_blocks and returns RES_ERROR when that is
\* 0, GET_BLOCK_SIZE stores 1 (RES_PARERR when the buffer is null); every
\* other command returns RES_PARERR.
C17_Ioctl ==
  /\ BridgeOnly(ev, {"ioctl"}) =>
       IF ev.pdrv # 0 THEN ev.res = "RES_PARERR"
       ELSE IF ev.ctl \in {"GET_SECTOR_SIZE", "GET_SECTOR_COUNT",
                           "GET_BLOCK_SIZE"} /\ ~ev.buf
       THEN ev.res = "RES_PARERR"
       ELSE CASE ev.ctl = "GET_SECTOR_SIZE" ->
                   ev.res = "RES_OK" /\ ev.out = U32(512)
              [] ev.ctl = "GET_SECTOR_COUNT" ->
                   /\ ev.out = capacity_blocks
                   /\ ev.res = IF capacity_blocks = U32(0) THEN "RES_ERROR"
                               ELSE "RES_OK"
              [] ev.ctl = "GET_BLOCK_SIZE" ->
                   ev.res = "RES_OK" /\ ev.out = U32(1)
              [] OTHER -> ev.res = "RES_PARERR" /\ ev.ctl # "CTRL_SYNC"
  /\ BridgeDriver(ev, {"ioctl"}) =>
       /\ ev.ctl = "CTRL_SYNC" /\ ev.op = "sync"
       /\ ev.res = IF ev.status = "SD_OK" THEN "RES_OK" ELSE "RES_ERROR"

\* GET_BLOCK_SIZE on an initialized card whose capacity is known.
C17_Witness ==
  /\ BridgeOnly(ev, {"ioctl"}) /\ ev.pdrv = 0 /\ ev.buf
  /\ ev.ctl = "GET_BLOCK_SIZE" /\ ev.res = "RES_OK" /\ ev.out = U32(1)
  /\ initialized /\ capacity_blocks # U32(0)

\* C18: SD_disk_status on drive 0 returns STA_NODISK | STA_NOINIT when the
\* card is absent, STA_NOINIT when it is present and the handle not
\* initialized, 0 when present and initialized, and changes nothing in the
\* handle; any other drive gives STA_NOINIT; SD_disk_initialize returns 0
\* exactly when the SD_SPI_Init it called returned SD_OK.
C18_Status ==
  [][/\ BridgeOnly(ev', {"status"}) =>
          /\ UNCHANGED <<handle, quiet, lockvars, cs, cdvars>>
          /\ ev'.sta = IF ev'.pdrv # 0 THEN {"STA_NOINIT"}
                       ELSE IF ev'.absent THEN {"STA_NODISK", "STA_NOINIT"}
                       ELSE IF initialized THEN {}
                       ELSE {"STA_NOINIT"}
     /\ BridgeOnly(ev', {"initialize"}) =>
          /\ ev'.pdrv # 0 \/ ev'.absent
          /\ ev'.sta # {}
     /\ BridgeDriver(ev', {"initialize"}) =>
          (ev'.sta = {} <=> ev'.status = "SD_OK")]_vars

\* SD_disk_status on drive 0 with the card in and initialized.
C18_Witness ==
  /\ BridgeOnly(ev, {"status"}) /\ ev.pdrv = 0 /\ ~ev.absent
  /\ has_cd /\ initialized /\ ev.sta = {}

RwReturned == Returned /\ ev.op \in RwOps
IsRead(e) == e.op \in {"read", "readm"}

\* The number a counter has grown by since the call began, when test holds,
\* is n, and else 0.
Grown(f, test, n) == stats[f] = ev.s0[f] + (IF test THEN n ELSE 0)

\* C19 as stated: every read call increments read_ops by 1 and read_blocks
\* by count, and every write call write_ops by 1 and write_blocks by count,
\* whatever the call returns, for the four entry points alike.
C19_EveryCall ==
  RwReturned =>
    /\ Grown("read_ops", IsRead(ev), 1)
    /\ Grown("read_blocks", IsRead(ev), ev.count)
    /\ Grown("write_ops", ~IsRead(ev), 1)
    /\ Grown("write_blocks", ~IsRead(ev), ev.count)

\* The call has passed the argument and presence tests and taken the mutex
\* and, if it is SD_ReadBlocks or SD_WriteBlocks, has found initialized true.
Counted(e) ==
  e.why = "end" /\ (e.op \in {"readm", "writem"} \/ ~e.uninit)

\* C19: a read or write call increments its ops counter by 1 and its blocks
\* counter by count exactly when it has got past SD_Lock (and, for
\* SD_ReadBlocks and SD_WriteBlocks, past the initialized test), whether or
\* not the transfer then succeeds; otherwise it leaves the four counters as
\* they were.
C19_CountedCalls ==
  RwReturned =>
    /\ Grown("read_ops", IsRead(ev) /\ Counted(ev), 1)
    /\ Grown("read_blocks", IsRead(ev) /\ Counted(ev), ev.count)
    /\ Grown("write_ops", ~IsRead(ev) /\ Counted(ev), 1)
    /\ Grown("write_blocks", ~IsRead(ev) /\ Counted(ev), ev.count)

\* A write of two blocks that failed on the bus has been counted.
C19_Witness ==
  /\ RwReturned /\ ev.op = "write" /\ ev.count = 2
  /\ ev.status = "SD_TIMEOUT" /\ ev.touched
  /\ stats.write_ops = ev.s0.write_ops + 1
  /\ stats.write_blocks = ev.s0.write_blocks + 2

-----------------------------------------------------------------------------
(***************************************************************************)
(* The busy time of a written block and the retry loop (SpecBusy).         *)
(***************************************************************************)
\* A single-block write came back in which the card accepted every block it
\* was sent, kept MISO low for SD_WRITE_BUSY_TIMEOUT_MS + 1 ms after the
\* first and for no time after the others.
HeldOnce ==
  /\ Returned /\ ev.op = "write" /\ ev.count = 1
  /\ ev.held = SD_WRITE_BUSY_TIMEOUT_MS + 1 /\ ~ev.reheld /\ ~ev.refused

\* C21 as stated: when the card accepts the block of a single-block write
\* and then holds MISO low for SD_WRITE_BUSY_TIMEOUT_MS + 1 ms, behaving
\* normally afterwards, the call returns SD_TIMEOUT with CS deasserted,
\* timeout_count one higher and error_count one higher.
C21_BusyTimeout ==
  HeldOnce =>
    /\ ev.status = "SD_TIMEOUT"
    /\ cs = "SET"
    /\ Grown("timeout_count", TRUE, 1)
    /\ Grown("error_count", TRUE, 1)

\* C21 as the code has it: the attempt that met the long busy time ends with
\* SD_TIMEOUT and is retried; the card being ready again by then, the second
\* attempt succeeds and the call returns SD_OK with CS deasserted and both
\* counters as they were.  A single-block write returns SD_TIMEOUT, with CS
\* deasserted and both counters one higher, when the busy wait of its last
\* attempt timed out.
C21_BusyRetried ==
  /\ HeldOnce =>
       /\ ev.status = "SD_OK" /\ last_status = "SD_OK"
       /\ ev.tries = 2
       /\ cs = "SET"
       /\ Grown("timeout_count", FALSE, 0)
       /\ Grown("error_count", FALSE, 0)
  /\ Returned /\ ev.op = "write" /\ ev.count = 1 /\ ev.last = "SD_TIMEOUT" =>
       /\ ev.status = "SD_TIMEOUT" /\ last_status = "SD_TIMEOUT"
       /\ ev.held > SD_WRITE_BUSY_TIMEOUT_MS
       /\ cs = "SET"
       /\ Grown("timeout_count", TRUE, 1)
       /\ Grown("error_count", TRUE, 1)

C21_Witness == HeldOnce /\ ev.status = "SD_OK" /\ ev.tries = 2

\* A single-block read or write came back from its retry loop.
SingleReturned ==
  /\ Returned /\ ev.op \in {"read", "write"} /\ ev.count = 1
  /\ ev.why = "end" /\ ~ev.uninit

\* C28: a single-block read or write makes at most SD_MAX_RETRIES + 1
\* attempts (so at most that many CMD17/CMD24 frames), begins no attempt after
\* one that returned SD_OK, has called SD_BackoffDelay after every attempt
\* that came before another, and returns the status of its last attempt.
C28_Retries ==
  /\ \A t \in Tasks :
       pc[t] \in {"rs_cmd", "ws_cmd"} =>
         /\ loc[t].tries <= SD_MAX_RETRIES
         /\ ~loc[t].okSeen
         /\ loc[t].delays = loc[t].tries
  /\ ev.kind = "frame" /\ ev.cmd \in {CMD17, CMD24} =>
       ev.tries <= SD_MAX_RETRIES /\ ~ev.okSeen
  /\ SingleReturned =>
       /\ ev.tries \in 1..(SD_MAX_RETRIES + 1)
       /\ ev.status = ev.last
       /\ ev.okSeen <=> ev.status = "SD_OK"
       /\ ev.status # "SD_OK" => ev.tries = SD_MAX_RETRIES + 1

C28_Witness ==
  /\ SingleReturned /\ ev.op = "read" /\ ev.status = "SD_OK"
  /\ ev.tries = SD_MAX_RETRIES + 1

-----------------------------------------------------------------------------
(***************************************************************************)
(* init_attempts (SpecAttempts).                                           *)
(***************************************************************************)
\* The step is the entry of an SD_SPI_Init call: a task goes on to SD_Lock,
\* or the call returns from its presence check, or it is made (and returns)
\* in an interrupt handler.
InitEntryStep ==
  \/ \E t \in Tasks :
       pc[t] = "idle" /\ pc'[t] = "lock" /\ call'[t].op = "init"
  \/ /\ ev' # ev /\ ev'.kind = "ret" /\ ev'.op = "init"
     /\ ev'.why = "entry" \/ ev'.isr

\* The SD_NO_MEDIA return of the presence check.
NoMediaStep == ev'.kind = "ret" /\ ev'.status = "SD_NO_MEDIA"

-----------------------------------------------------------------------------
(***************************************************************************)
(* Who writes the handle (SpecRace).                                       *)
(***************************************************************************)
\* The step changes a statistics counter or a state field of the handle.
WritesHandle ==
  \/ stats' # stats
  \/ initialized' # initialized \/ is_sdhc' # is_sdhc
  \/ capacity_blocks' # capacity_blocks \/ last_status' # last_status

\* No call is between the load and the store of its SD_RecordStatus, and
\* every SD_TIMEOUT returned so far is in timeout_count.
NoLostUpdate ==
  (\A t \in Tasks : pc[t] # "rec_store") =>
    stats.timeout_count = hist.timeouts

\* C23: every step that changes a statistics counter or initialized, is_sdhc,
\* capacity_blocks or last_status is a step of the task that holds the handle
\* mutex; and with two tasks running calls concurrently no counter update is
\* lost: timeout_count is the number of calls that returned SD_TIMEOUT.
C23_MutexGuardsWrites ==
  /\ [][WritesHandle =>
          \E t \in Tasks : holder = t /\ pc'[t] # pc[t]]_vars
  /\ []NoLostUpdate

-----------------------------------------------------------------------------
ReturnStep == ev' # ev /\ ev'.kind = "ret"

C26_DmaPath ==
  ev.kind = "data" =>
    /\ ev.path \in {"dma", "polled"}
    /\ ev.path = "dma" <=> (ev.use_dma /\ ev.addr % SD_DMA_ALIGNMENT = 0)
    /\ ev.status = "SD_OK" =>
         ev.wire = IF ev.op \in {"write", "writem"} THEN ev.data ELSE "FF"

C26_Witness ==
  /\ ev.kind = "data" /\ ev.op = "writem" /\ ev.i = 1
  /\ ev.path = "dma" /\ ev.status = "SD_OK" /\ ev.wire = ev.data

(***************************************************************************)
(* C25: every init, read, write or sync call eventually returns, provided   *)
(* the tick counter advances; when the call gives the bus back CS is        *)
(* deasserted, and a DMA transfer that timed out has been aborted: none is  *)
(* running outside the transfer of a block.                                 *)
(***************************************************************************)
DmaAborted ==
  /\ \A t \in Tasks : loc[t].dma = "running" => pc[t] \in DataPcs
  /\ (ev.kind = "data" /\ ev.path = "dma" /\ ev.status = "SD_TIMEOUT") =>
       loc[ev.t].dma = "aborted"

Clocked == ev.kind \in {"byte", "frame"} /\ ev.csend # "none"

MultiReturned ==
  /\ ev.kind = "ret" /\ ev.op \in {"readm", "writem"} /\ ev.count > 1
  /\ ev.multi.opened > 0

C30_StopFramed ==
  (ev.kind = "ret" /\ ev.op = "readm" /\ ev.multi.accepted) =>
    ev.multi.stop = "framed" /\ ev.multi.csStop = "RESET"

(***************************************************************************)
(* C31: when a primitive inside a read or write fails with a classified    *)
(* status, the public call returns that same status, and a wait that        *)
(* exceeded its deadline is counted in timeout_count.                       *)
(***************************************************************************)
C31_Bubbles ==
  (ev.kind = "ret" /\ ev.op \in {"read", "write"} /\ ev.status # "SD_OK"
     /\ ev.prim \in {"SD_TIMEOUT", "SD_ERROR"}) =>
    /\ ev.status = ev.prim
    /\ ev.prim = "SD_TIMEOUT" =>
         stats.timeout_count = ev.s0.timeout_count + 1

(***************************************************************************)
(* C32: a DMA transfer whose start fails returns SD_ERROR without waiting; *)
(* otherwise the initiator waits for the signal of its direction for at    *)
(* most the DMA timeout, and when the signal does not come the peripheral  *)
(* is aborted and SD_TIMEOUT is returned; in both builds.                  *)
(***************************************************************************)
Waiting(t) == loc[t].dma \in {"running", "timedout"}

C32_DmaTransfer ==
  /\ \A t \in Tasks :
       /\ Waiting(t) =>
            /\ pc[t] \in DataPcs /\ loc[t].polls <= MaxPolls
            /\ loc[t].dma = "running" =>
                 hist.sig.hw \in {DmaDir(pc[t]), "idle"}
       /\ loc[t].dma = "failed" => loc[t].polls = 0
       /\ loc[t].dma = "aborted" =>
            loc[t].polls = MaxPolls /\ hist.sig.hw = "idle"
  /\ (ev.kind = "data" /\ ev.path = "dma") =>
       /\ ev.dma \in DmaEnds
       /\ ev.dma = "failed" <=> ev.status = "SD_ERROR"
       /\ ev.dma = "aborted" <=> ev.status = "SD_TIMEOUT"
       /\ ev.dma \in {"done", "done_err", "done_stale"} <=>
            ev.status = "SD_OK"

C32_Witness ==
  /\ ev.kind = "data" /\ ev.path = "dma" /\ ev.dma = "aborted"
  /\ ev.status = "SD_TIMEOUT" /\ hist.sig.build = "bare"
  /\ hist.sig.hw = "idle"

(***************************************************************************)
(* C33: at most one DMA transaction is in flight, it belongs to the one    *)
(* initiator that waits, and no wait is satisfied by a signal that was     *)
(* given for an earlier transfer.                                          *)
(***************************************************************************)
C33_OwnSignal ==
  /\ Cardinality({t \in Tasks : Waiting(t)}) <= 1
  /\ hist.sig.hw # "idle" =>
       \E t \in Tasks : Waiting(t) /\ DmaDir(pc[t]) = hist.sig.hw
  /\ \A t \in Tasks :
       /\ loc[t].dma # "done_stale" /\ "done_stale" \notin loc[t].ends
       /\ loc[t].dma = "running" => hist.sig[DmaDir(pc[t])] # "stale"

C33_Witness ==
  \E t \in Tasks :
    /\ loc[t].dma = "done" /\ DmaDir(pc[t]) = "tx"
    /\ hist.sig.rx = "stale" /\ "aborted" \in loc[t].ends

(***************************************************************************)
(* C35: a read or write one of whose DMA transfers was ended by the error  *)
(* interrupt of the SPI peripheral does not return SD_OK.                  *)
(***************************************************************************)
C35_ErrorSeen ==
  (ev.kind = "ret" /\ ev.op \in RwOps /\ "done_err" \in ev.ends) =>
    ev.status # "SD_OK"

(***************************************************************************)
(* C34: the capacity SD_ParseCSD stores is the mathematical value of       *)
(* (C_SIZE + 1) * 1024 for structure 1, of (C_SIZE + 1) * 2^(C_SIZE_MULT   *)
(* + 2) * 2^READ_BL_LEN / 512 for structure 0, and 0 otherwise, for every  *)
(* value of the fields.                                                    *)
(***************************************************************************)
\* The value as a number of 2^16 and a rest below 2^16, not reduced.
Unreduced(n, k) == <<(n \div Half) * k + ((n % Half) * k) \div Half,
                    ((n % Half) * k) % Half>>

Capacity(csd) ==
  CASE csd.structure = 1 -> Unreduced(csd.c_size + 1, 1024)
    [] csd.structure = 0 ->
         LET e == csd.c_size_mult + 2 + csd.read_bl_len
         IN IF e >= 9 THEN Unreduced(csd.c_size + 1, 2^(e - 9))
            ELSE Unreduced(((csd.c_size + 1) * 2^e) \div 512, 1)
    [] OTHER -> <<0, 0>>

C34_Capacity ==
  (InitOk /\ hist.csd.read) => capacity_blocks = Capacity(hist.csd)

(***************************************************************************)
(* C36: SD_SPI_Init goes on from the ACMD41 loop to CMD58, and returns      *)
(* SD_OK, only when an ACMD41 of the call was itself answered with R1 0x00; *)
(* the R1 byte of a CMD55 or of an earlier turn does not count.             *)
(***************************************************************************)
C36_AcmdAnswered ==
  /\ \A t \in Tasks : pc[t] = "i_cmd58" => loc[t].acmdOk
  /\ InitOk => ev.acmdOk

(***************************************************************************)
(* C37: a multi-block write returns SD_OK only if every block was accepted *)
(* and the busy wait after the stop token ended with the card ready.       *)
(***************************************************************************)
C37_FinalWait ==
  (ev.kind = "ret" /\ ev.op = "writem" /\ ev.status = "SD_OK") =>
    /\ ev.multi.failed = -1 /\ ev.multi.moved = ev.count
    /\ ev.multi.final = "SD_OK"

(***************************************************************************)
(* C38: a wait with a deadline reports its timeout only after at least the *)
(* configured number of ticks, whatever HAL_GetTick() was at its start.    *)
(***************************************************************************)
C38_FullWait ==
  (ev.kind = "wait" /\ ev.status = "SD_TIMEOUT") => ev.waited >= MaxPolls

(***************************************************************************)
(* C39: while a read, write or sync has CS asserted, the initialized flag  *)
(* of the handle is true.                                                  *)
(***************************************************************************)
C39_InitializedOnBus ==
  \A t \in Tasks :
    (Holding(t) /\ call[t].op \in RwOps \cup {"sync"} /\ cs = "RESET") =>
      initialized

(***************************************************************************)
(* C40: when SD_DeInit has deleted the mutex and the completion signals,   *)
(* no other task holds the mutex or waits for a signal; afterwards          *)
(* initialized is false, and until SD_Init is called every call returns a  *)
(* status other than SD_OK without having touched the bus.                 *)
(***************************************************************************)
C40_DeInitSafe ==
  /\ ev.kind = "deinit" =>
       /\ \A u \in Tasks : ~Holding(u) /\ ~Waiting(u)
       /\ ~initialized /\ mutex = "NULL"
  /\ (ev.kind = "ret" /\ mutex = "NULL") =>
       ev.status # "SD_OK" /\ ~ev.touched
====
